---- MODULE Spec2Model ----
(***************************************************************************)
(* Model of the retail-personalization backend adapters                    *)
(* (personalized_customer_experiences/backend/services).                   *)
(*                                                                         *)
(* The adapters are thin wrappers over managed services.  A request        *)
(* handler is a process that runs one adapter operation at a time; every   *)
(* SDK call of an operation is one step, so that the calls of concurrent   *)
(* requests interleave at the service, and every SDK call may be answered  *)
(* with a ClientError.                                                     *)
(***************************************************************************)
EXTENDS Integers, Sequences, FiniteSets, TLC

(***************************************************************************)
(* Bounds of the model.                                                    *)
(***************************************************************************)
MaxTicks == 3        \* half-second clock steps taken around a long wait
MaxWaits == 1        \* long waits, each one tick short of an hour
MaxTtlHours == 1     \* largest ttl_hours passed to cache_recommendations
MaxCalls == 3        \* adapter operations started in one behaviour

(***************************************************************************)
(* Program constants.                                                      *)
(***************************************************************************)
TicksPerSecond == 2
SecondsPerHour == 3600
TicksPerHour == SecondsPerHour * TicksPerSecond
LongWait == TicksPerHour - 1

Procs == {"p1", "p2"}
Tenants == {"tA", "tB"}
Users == {"u1"}

(***************************************************************************)
(* Python values.  A float is named by its repr, the shortest decimal      *)
(* c * 10^q that reads back as the same double; a Decimal is the decimal   *)
(* c * 10^q itself.                                                        *)
(***************************************************************************)
PyNone == [py |-> "None"]
PyBool(b) == [py |-> "bool", b |-> b]
PyStr(s) == [py |-> "str", s |-> s]
PyInt(n) == [py |-> "int", c |-> n, q |-> 0]
PyFloat(c, q) == [py |-> "float", c |-> c, q |-> q]
PyDecimal(c, q) == [py |-> "Decimal", c |-> c, q |-> q]
PyList(s) == [py |-> "list", v |-> s]
PyDict(f) == [py |-> "dict", v |-> f]

IsNumber(x) == x.py \in {"int", "float", "Decimal"}

RECURSIVE Pow(_, _)
Pow(b, n) == IF n = 0 THEN 1 ELSE b * Pow(b, n - 1)

\* the decimal c * 10^q without trailing zeros in the fraction
RECURSIVE NormC(_, _)
NormC(c, q) == IF q < 0 /\ c % 10 = 0 THEN NormC(c \div 10, q + 1) ELSE c
RECURSIVE NormQ(_, _)
NormQ(c, q) == IF q < 0 /\ c % 10 = 0 THEN NormQ(c \div 10, q + 1) ELSE q

\* c * 10^q is a double exactly: an integer, or a fraction whose
\* denominator is a power of two (5^-q divides c)
ExactDouble(c, q) == q >= 0 \/ NormC(c, q) % Pow(5, -NormQ(c, q)) = 0

SameDecimal(x, y) == NormC(x.c, x.q) = NormC(y.c, y.q) /\ NormQ(x.c, x.q) = NormQ(y.c, y.q)

\* Python ==.  A float equals a Decimal or an int only by its exact binary
\* value, which is its repr only when the repr is a double exactly.
RECURSIVE PyEq(_, _)
PyEq(x, y) ==
    IF IsNumber(x) /\ IsNumber(y)
    THEN /\ SameDecimal(x, y)
         /\ (x.py = "float" /\ y.py # "float") => ExactDouble(x.c, x.q)
         /\ (y.py = "float" /\ x.py # "float") => ExactDouble(y.c, y.q)
    ELSE IF x.py # y.py THEN FALSE
    ELSE IF x.py = "None" THEN TRUE
    ELSE IF x.py = "bool" THEN x.b = y.b
    ELSE IF x.py = "str" THEN x.s = y.s
    ELSE IF x.py = "list"
    THEN /\ Len(x.v) = Len(y.v)
         /\ \A i \in 1..Len(x.v) : PyEq(x.v[i], y.v[i])
    ELSE /\ DOMAIN x.v = DOMAIN y.v
         /\ \A k \in DOMAIN x.v : PyEq(x.v[k], y.v[k])

(***************************************************************************)
(* DynamoDBHelper: numeric normalisation.                                  *)
(***************************************************************************)

\* _convert_floats_to_decimal: Decimal(str(obj)) for a float, recursing
\* through dicts and lists, every other value unchanged
RECURSIVE _convert_floats_to_decimal(_)
_convert_floats_to_decimal(obj) ==
    IF obj.py = "float" THEN PyDecimal(obj.c, obj.q)
    ELSE IF obj.py = "dict"
    THEN PyDict([k \in DOMAIN obj.v |-> _convert_floats_to_decimal(obj.v[k])])
    ELSE IF obj.py = "list"
    THEN PyList([i \in 1..Len(obj.v) |-> _convert_floats_to_decimal(obj.v[i])])
    ELSE obj

\* a conversion that leaves the Decimals of the store in place
_convert_decimals_skipped(obj) == obj

\* _convert_decimals_to_float: float(obj) for a Decimal, recursing through
\* dicts and lists, every other value unchanged
RECURSIVE _convert_decimals_to_float(_)
_convert_decimals_to_float(obj) ==
    IF obj.py = "Decimal" THEN PyFloat(NormC(obj.c, obj.q), NormQ(obj.c, obj.q))
    ELSE IF obj.py = "dict"
    THEN PyDict([k \in DOMAIN obj.v |-> _convert_decimals_to_float(obj.v[k])])
    ELSE IF obj.py = "list"
    THEN PyList([i \in 1..Len(obj.v) |-> _convert_decimals_to_float(obj.v[i])])
    ELSE obj

(***************************************************************************)
(* The table resource: attribute values as the store holds them.  The      *)
(* serializer of put_item refuses a float and writes an int or a Decimal   *)
(* as a number; the deserializer of get_item reads every number back as a  *)
(* Decimal.                                                                *)
(***************************************************************************)
RECURSIVE Serializable(_)
Serializable(obj) ==
    IF obj.py = "float" THEN FALSE
    ELSE IF obj.py = "list" THEN \A i \in 1..Len(obj.v) : Serializable(obj.v[i])
    ELSE IF obj.py = "dict" THEN \A k \in DOMAIN obj.v : Serializable(obj.v[k])
    ELSE TRUE

RECURSIVE Serialize(_)
Serialize(obj) ==
    IF obj.py \in {"int", "Decimal"} THEN [ddb |-> "N", c |-> obj.c, q |-> obj.q]
    ELSE IF obj.py = "str" THEN [ddb |-> "S", s |-> obj.s]
    ELSE IF obj.py = "bool" THEN [ddb |-> "BOOL", b |-> obj.b]
    ELSE IF obj.py = "list"
    THEN [ddb |-> "L", v |-> [i \in 1..Len(obj.v) |-> Serialize(obj.v[i])]]
    ELSE IF obj.py = "dict"
    THEN [ddb |-> "M", v |-> [k \in DOMAIN obj.v |-> Serialize(obj.v[k])]]
    ELSE [ddb |-> "NULL"]

RECURSIVE Deserialize(_)
Deserialize(a) ==
    IF a.ddb = "N" THEN PyDecimal(a.c, a.q)
    ELSE IF a.ddb = "S" THEN PyStr(a.s)
    ELSE IF a.ddb = "BOOL" THEN PyBool(a.b)
    ELSE IF a.ddb = "L"
    THEN PyList([i \in 1..Len(a.v) |-> Deserialize(a.v[i])])
    ELSE IF a.ddb = "M"
    THEN PyDict([k \in DOMAIN a.v |-> Deserialize(a.v[k])])
    ELSE PyNone

(***************************************************************************)
(* Inputs of the recommendation cache.                                     *)
(***************************************************************************)
Rec(id, score) == PyDict([item_id |-> PyStr(id), score |-> score])

RecLists ==
    { PyList(<<Rec("i1", PyFloat(1, -1)), Rec("i2", PyInt(1))>>),
      PyList(<<Rec("i2", PyInt(1)), Rec("i1", PyFloat(1, -1))>>) }

Keys == Tenants \X Users

(***************************************************************************)
(* State.                                                                  *)
(***************************************************************************)
VARIABLES
    now,                    \* datetime.utcnow(), in ticks of 1/TicksPerSecond s
    recommendations_table,  \* (tenant_id, user_id) -> row of the table
    call,                   \* per request handler: the operation it runs
    ret,                    \* per request handler: outcome of its last operation
    written,                \* history: per key, the list and expiry of the put that wrote the row
    ncalls,                 \* operations started
    campaign_tracking_table,\* rows of the campaign tracking table
    personalize,            \* resources the recommendation service holds
    bucket,                 \* objects of the bucket, by full key
    pinpoint,               \* messages the messaging service has accepted
    user_profiles_table     \* (tenant_id, user_id) -> row of the profile table

vars == <<now, recommendations_table, call, ret, written, ncalls,
          campaign_tracking_table, personalize, bucket, pinpoint,
          user_profiles_table>>

\* what the recommendation cache leaves alone
notCache == <<campaign_tracking_table, personalize, bucket, pinpoint,
             user_profiles_table>>

\* an account of the recommendation service holding nothing of this program;
\* others: dataset groups and campaigns of tenants other than Tenants
NoResources ==
    [dataset_group |-> {}, dataset |-> {}, solution |-> {},
     campaign |-> {}, import_job |-> {}, solution_version |-> {},
     others |-> [dataset_group |-> 0, campaign |-> 0]]

NoItem == [absent |-> TRUE]
NoProfile == [absent |-> TRUE]
NoWrite == [absent |-> TRUE]
Idle == [op |-> "idle", pc |-> "idle"]
NoRet == [op |-> "none"]

\* int(datetime.timestamp()): whole seconds of a clock reading
Timestamp(t) == t \div TicksPerSecond

\* the ttl check of get_cached_recommendations taken one second too early
ExpiredAtBoundary(ttl, current_timestamp) == ttl <= current_timestamp

\* item.get('ttl', 0) < current_timestamp
Expired(ttl, current_timestamp) == ttl < current_timestamp

\* a put that keeps the ttl of the row it finds
PutItemKeepTtl(table, key, item) ==
    [table EXCEPT ![key] =
        IF table[key] = NoItem THEN item
        ELSE [item EXCEPT !.ttl = table[key].ttl]]

\* Table.put_item: the row of the key is replaced as a whole
PutItem(table, key, item) == [table EXCEPT ![key] = item]

\* a delete that misses the row
DeleteItemMissed(table, key) == table

\* Table.delete_item: the row of the key is removed, if there is one
DeleteItem(table, key) == [table EXCEPT ![key] = NoItem]

Return(p, r) ==
    /\ call' = [call EXCEPT ![p] = Idle]
    /\ ret' = [ret EXCEPT ![p] = r]

Begin(p, c) ==
    /\ call[p].op = "idle"
    /\ ncalls < MaxCalls
    /\ ncalls' = ncalls + 1
    /\ call' = [call EXCEPT ![p] = c]
    /\ ret' = [ret EXCEPT ![p] = NoRet]

(***************************************************************************)
(* The clock.                                                              *)
(***************************************************************************)
Tick ==
    /\ now % LongWait < MaxTicks
    /\ now' = now + 1
    /\ UNCHANGED <<notCache, recommendations_table, call, ret, written, ncalls>>

Wait ==
    /\ now \div LongWait < MaxWaits
    /\ now' = now + LongWait
    /\ UNCHANGED <<notCache, recommendations_table, call, ret, written, ncalls>>

(***************************************************************************)
(* DynamoDBHelper.cache_recommendations                                    *)
(***************************************************************************)
cache_recommendations(p, tenant_id, user_id, recommendations, ttl_hours) ==
    /\ Begin(p, [op |-> "cache_recommendations", pc |-> "put_item",
                 tenant_id |-> tenant_id, user_id |-> user_id,
                 recommendations |-> recommendations,
                 expires |-> now + ttl_hours * TicksPerHour,
                 item |-> [tenant_id |-> tenant_id, user_id |-> user_id,
                           recommendations |-> _convert_floats_to_decimal(recommendations),
                           cached_at |-> now,
                           ttl |-> Timestamp(now + ttl_hours * TicksPerHour)]])
    /\ UNCHANGED <<notCache, now, recommendations_table, written>>

CacheResult(c, outcome, value, fault) ==
    [op |-> c.op, tenant_id |-> c.tenant_id, user_id |-> c.user_id,
     recommendations |-> c.recommendations, item |-> c.item,
     outcome |-> outcome, value |-> value, fault |-> fault]

\* put_item answered: the row is written and True returned; a float left
\* in the item is refused by the serializer before anything is sent
cache_put_item(p) ==
    LET c == call[p]
        key == <<c.tenant_id, c.user_id>>
    IN  /\ c.op = "cache_recommendations" /\ c.pc = "put_item"
        /\ IF Serializable(c.item.recommendations)
           THEN /\ recommendations_table' =
                      PutItem(recommendations_table, key,
                              [c.item EXCEPT !.recommendations = Serialize(@)])
                /\ written' = [written EXCEPT ![key] =
                      [recommendations |-> c.recommendations, expires |-> c.expires]]
                /\ Return(p, CacheResult(c, "return", PyBool(TRUE), FALSE))
           ELSE /\ Return(p, CacheResult(c, "raise", PyStr("TypeError"), FALSE))
                /\ UNCHANGED <<notCache, recommendations_table, written>>
        /\ UNCHANGED <<notCache, now, ncalls>>

\* put_item answered with a ClientError: wrapped and raised
cache_put_item_error(p) ==
    LET c == call[p]
    IN  /\ c.op = "cache_recommendations" /\ c.pc = "put_item"
        /\ Return(p, CacheResult(c, "raise", PyStr("Recommendations caching failed"), TRUE))
        /\ UNCHANGED <<notCache, now, recommendations_table, written, ncalls>>

(***************************************************************************)
(* DynamoDBHelper.get_cached_recommendations                               *)
(***************************************************************************)
get_cached_recommendations(p, tenant_id, user_id) ==
    /\ Begin(p, [op |-> "get_cached_recommendations", pc |-> "get_item",
                 tenant_id |-> tenant_id, user_id |-> user_id])
    /\ UNCHANGED <<notCache, now, recommendations_table, written>>

GetResult(c, value, fault, item, seen, expired, deleted) ==
    [op |-> c.op, tenant_id |-> c.tenant_id, user_id |-> c.user_id,
     outcome |-> "return", value |-> value, fault |-> fault,
     item |-> item, seen |-> seen, read_at |-> now,
     expired |-> expired, deleted |-> deleted]

\* get_item answered: no Item returns None, an Item goes to the ttl check
get_item(p) ==
    LET c == call[p]
        key == <<c.tenant_id, c.user_id>>
        row == recommendations_table[key]
    IN  /\ c.op = "get_cached_recommendations" /\ c.pc = "get_item"
        /\ IF row = NoItem
           THEN Return(p, GetResult(c, PyNone, FALSE, NoItem, written[key], FALSE, FALSE))
           ELSE /\ call' = [call EXCEPT ![p] =
                      [op |-> c.op, pc |-> "check_ttl",
                       tenant_id |-> c.tenant_id, user_id |-> c.user_id,
                       item |-> [row EXCEPT !.recommendations = Deserialize(@)],
                       seen |-> written[key]]]
                /\ UNCHANGED ret
        /\ UNCHANGED <<notCache, now, recommendations_table, written, ncalls>>

\* get_item answered with a ClientError: logged, None returned
get_item_error(p) ==
    LET c == call[p]
        key == <<c.tenant_id, c.user_id>>
    IN  /\ c.op = "get_cached_recommendations" /\ c.pc = "get_item"
        /\ Return(p, GetResult(c, PyNone, TRUE, NoItem, written[key], FALSE, FALSE))
        /\ UNCHANGED <<notCache, now, recommendations_table, written, ncalls>>

\* the clock is read and the ttl compared: an expired item goes to the
\* delete, any other item is converted and returned
check_ttl(p) ==
    LET c == call[p]
        current_timestamp == Timestamp(now)
    IN  /\ c.op = "get_cached_recommendations" /\ c.pc = "check_ttl"
        /\ IF Expired(c.item.ttl, current_timestamp)
           THEN /\ call' = [call EXCEPT ![p] =
                      [c EXCEPT !.pc = "delete_item"] @@ [read_at |-> now]]
                /\ UNCHANGED ret
           ELSE Return(p, GetResult(c, _convert_decimals_to_float(c.item.recommendations),
                                    FALSE, c.item, c.seen, FALSE, FALSE))
        /\ UNCHANGED <<notCache, now, recommendations_table, written, ncalls>>

\* a lazy-expiry delete that raises when it finds the row already gone
ExpiredRaised(c, fault) ==
    [op |-> c.op, tenant_id |-> c.tenant_id, user_id |-> c.user_id,
     outcome |-> IF recommendations_table[<<c.tenant_id, c.user_id>>] = NoItem
                 THEN "raise" ELSE "return",
     value |-> PyNone, fault |-> fault,
     item |-> c.item, seen |-> c.seen, read_at |-> c.read_at,
     expired |-> TRUE, deleted |-> ~fault,
     gone |-> recommendations_table[<<c.tenant_id, c.user_id>>] = NoItem]

\* gone: the row was no longer there when the delete was answered
ExpiredResult(c, fault) ==
    [op |-> c.op, tenant_id |-> c.tenant_id, user_id |-> c.user_id,
     outcome |-> "return", value |-> PyNone, fault |-> fault,
     item |-> c.item, seen |-> c.seen, read_at |-> c.read_at,
     expired |-> TRUE, deleted |-> ~fault,
     gone |-> recommendations_table[<<c.tenant_id, c.user_id>>] = NoItem]

\* delete_item of the expired row answered: None returned
expired_delete_item(p) ==
    LET c == call[p]
        key == <<c.tenant_id, c.user_id>>
    IN  /\ c.op = "get_cached_recommendations" /\ c.pc = "delete_item"
        /\ recommendations_table' = DeleteItem(recommendations_table, key)
        /\ written' = [written EXCEPT ![key] =
              IF recommendations_table'[key] = NoItem THEN NoWrite ELSE @]
        /\ Return(p, ExpiredResult(c, FALSE))
        /\ UNCHANGED <<notCache, now, ncalls>>

\* delete_item answered with a ClientError: logged, None returned
expired_delete_item_error(p) ==
    LET c == call[p]
    IN  /\ c.op = "get_cached_recommendations" /\ c.pc = "delete_item"
        /\ Return(p, ExpiredResult(c, TRUE))
        /\ UNCHANGED <<notCache, now, recommendations_table, written, ncalls>>

(***************************************************************************)
(* DynamoDBHelper.invalidate_recommendations_cache                         *)
(***************************************************************************)
\* item: the row the key held when the delete was answered
InvalidateResult(tenant_id, user_id, fault) ==
    [op |-> "invalidate_recommendations_cache",
     tenant_id |-> tenant_id, user_id |-> user_id,
     outcome |-> "return", value |-> PyBool(~fault), fault |-> fault,
     item |-> recommendations_table[<<tenant_id, user_id>>]]

\* an invalidation that removes the row only when its ttl has passed
invalidate_expired_only(p, tenant_id, user_id) ==
    LET key == <<tenant_id, user_id>>
        row == recommendations_table[key]
    IN  /\ call[p].op = "idle" /\ ncalls < MaxCalls
        /\ ncalls' = ncalls + 1
        /\ recommendations_table' =
              IF row # NoItem /\ Expired(row.ttl, Timestamp(now))
              THEN DeleteItem(recommendations_table, key)
              ELSE recommendations_table
        /\ written' = [written EXCEPT ![key] =
              IF recommendations_table'[key] = NoItem THEN NoWrite ELSE @]
        /\ ret' = [ret EXCEPT ![p] = InvalidateResult(tenant_id, user_id, FALSE)]
        /\ UNCHANGED <<notCache, now, call>>

\* the single delete_item answered: True returned
invalidate_recommendations_cache(p, tenant_id, user_id) ==
    LET key == <<tenant_id, user_id>>
    IN  /\ call[p].op = "idle" /\ ncalls < MaxCalls
        /\ ncalls' = ncalls + 1
        /\ recommendations_table' = DeleteItem(recommendations_table, key)
        /\ written' = [written EXCEPT ![key] =
              IF recommendations_table'[key] = NoItem THEN NoWrite ELSE @]
        /\ ret' = [ret EXCEPT ![p] = InvalidateResult(tenant_id, user_id, FALSE)]
        /\ UNCHANGED <<notCache, now, call>>

\* the delete_item answered with a ClientError: logged, False returned
invalidate_recommendations_cache_error(p, tenant_id, user_id) ==
    /\ call[p].op = "idle" /\ ncalls < MaxCalls
    /\ ncalls' = ncalls + 1
    /\ ret' = [ret EXCEPT ![p] = InvalidateResult(tenant_id, user_id, TRUE)]
    /\ UNCHANGED <<notCache, now, recommendations_table, call, written>>

(***************************************************************************)
(* The recommendation cache under concurrent requests.                     *)
(***************************************************************************)
InitCache ==
    /\ now = 0
    /\ pinpoint = {}
    /\ user_profiles_table = [k \in Keys |-> NoProfile]
    /\ recommendations_table = [k \in Keys |-> NoItem]
    /\ call = [p \in Procs |-> Idle]
    /\ ret = [p \in Procs |-> NoRet]
    /\ written = [k \in Keys |-> NoWrite]
    /\ ncalls = 0
    /\ campaign_tracking_table = {}
    /\ personalize = NoResources
    /\ bucket = {}

NextCache ==
    \/ Tick
    \/ Wait
    \/ \E p \in Procs, t \in Tenants, u \in Users :
          \/ \E r \in RecLists, h \in 1..MaxTtlHours : cache_recommendations(p, t, u, r, h)
          \/ get_cached_recommendations(p, t, u)
          \/ invalidate_recommendations_cache(p, t, u)
          \/ invalidate_recommendations_cache_error(p, t, u)
    \/ \E p \in Procs :
          \/ cache_put_item(p)
          \/ cache_put_item_error(p)
          \/ get_item(p)
          \/ get_item_error(p)
          \/ check_ttl(p)
          \/ expired_delete_item(p)
          \/ expired_delete_item_error(p)

SpecCache == InitCache /\ [][NextCache]_vars

(***************************************************************************)
(* Claims about the recommendation cache.                                  *)
(***************************************************************************)
KeyOf(r) == <<r.tenant_id, r.user_id>>

IsGet(r) == r.op = "get_cached_recommendations"
IsCache(r) == r.op = "cache_recommendations"

StoredRow(item) == [item EXCEPT !.recommendations = Serialize(@)]

\* C1: a get_cached_recommendations whose store call is answered, that finds
\* the row of a successful cache_recommendations(tenant, user, items, h) and
\* reads the clock before that call's expiry time (its time plus h hours),
\* returns a list equal to the written one, item by item in the same order.
C1_WriteThenReadReturnsWritten ==
    \A p \in Procs :
        (/\ IsGet(ret[p]) /\ ~ret[p].fault
         /\ ret[p].seen # NoWrite
         /\ ret[p].read_at < ret[p].seen.expires)
        => /\ ret[p].value.py = "list"
           /\ PyEq(ret[p].value, ret[p].seen.recommendations)

\* a read in the last whole second of the entry's life returned the list
C1_Witness ==
    \E p \in Procs :
        /\ IsGet(ret[p]) /\ ~ret[p].fault
        /\ ret[p].seen # NoWrite
        /\ ret[p].read_at < ret[p].seen.expires
        /\ ret[p].read_at > 0
        /\ Timestamp(ret[p].read_at) = ret[p].item.ttl
        /\ ret[p].value.py = "list" /\ Len(ret[p].value.v) = 2

\* C2: a get_cached_recommendations that reads the clock after the second of
\* the row's ttl goes to the delete and, once the delete is answered,
\* returns None with the row removed; a get that finds no row returns None;
\* and a removed row comes back only by a put of cache_recommendations.
C2_ExpiredReadRemovesRow ==
    [][\A p \in Procs :
        LET c == call[p] IN
        /\ (/\ IsGet(c) /\ c.pc = "check_ttl" /\ call'[p] # c
            /\ c.item.ttl < Timestamp(now))
           => call'[p].pc = "delete_item"
        /\ (/\ IsGet(c) /\ c.pc = "delete_item" /\ call'[p] # c
            /\ ~ret'[p].fault)
           => /\ ret'[p].value = PyNone
              /\ recommendations_table'[KeyOf(c)] = NoItem
        /\ (/\ IsGet(c) /\ c.pc = "get_item" /\ call'[p] # c
            /\ recommendations_table[KeyOf(c)] = NoItem)
           => ret'[p].value = PyNone
        /\ \A k \in Keys :
              (recommendations_table[k] = NoItem /\ recommendations_table'[k] # NoItem)
              => \E q \in Procs :
                    /\ IsCache(call[q]) /\ KeyOf(call[q]) = k
                    /\ call'[q] = Idle
      ]_vars

\* an expired read removed the row, and a later read of the key found none
C2_Witness ==
    \E p, q \in Procs :
        /\ IsGet(ret[p]) /\ ret[p].expired /\ ret[p].deleted
        /\ ret[p].value = PyNone
        /\ recommendations_table[KeyOf(ret[p])] = NoItem
        /\ IsGet(ret[q]) /\ ~ret[q].fault /\ KeyOf(ret[q]) = KeyOf(ret[p])
        /\ ret[q].item = NoItem /\ ret[q].value = PyNone
        /\ ret[q].read_at >= ret[p].read_at
        /\ p # q

\* C3 as claimed: the items are returned exactly when the row is present
\* with ttl > now, and a row with ttl <= now, the boundary ttl = now
\* included, is treated as absent and deleted.
C3_ReturnsIffTtlAfterNow ==
    \A p \in Procs :
        (IsGet(ret[p]) /\ ~ret[p].fault)
        => /\ ret[p].value.py = "list"
              <=> (ret[p].item # NoItem /\ ret[p].item.ttl > Timestamp(ret[p].read_at))
           /\ (ret[p].item # NoItem /\ ret[p].item.ttl <= Timestamp(ret[p].read_at))
              => (ret[p].value = PyNone /\ ret[p].deleted)

\* C3 as amended: when its store calls are answered, the items are returned
\* exactly when the row is present with ttl >= now (the boundary ttl = now is
\* still served), and a row with ttl < now is treated as absent and deleted.
C3_ReturnsIffTtlNotBeforeNow ==
    \A p \in Procs :
        (IsGet(ret[p]) /\ ~ret[p].fault)
        => /\ ret[p].value.py = "list"
              <=> (ret[p].item # NoItem /\ ret[p].item.ttl >= Timestamp(ret[p].read_at))
           /\ (ret[p].item # NoItem /\ ret[p].item.ttl < Timestamp(ret[p].read_at))
              => (ret[p].value = PyNone /\ ret[p].deleted)

\* a read in the very second of the ttl was served, and one a second later
\* was not
C3_Witness ==
    \E p, q \in Procs :
        /\ IsGet(ret[p]) /\ ~ret[p].fault /\ ret[p].item # NoItem
        /\ ret[p].item.ttl = Timestamp(ret[p].read_at)
        /\ ret[p].value.py = "list"
        /\ IsGet(ret[q]) /\ ~ret[q].fault /\ ret[q].item # NoItem
        /\ ret[q].item.ttl + 1 = Timestamp(ret[q].read_at)
        /\ ret[q].value = PyNone /\ ret[q].deleted

\* C4: a cache_recommendations whose put is answered returns True whatever
\* row the key held, and the row of the key is then wholly the item of that
\* put (recommendations, cached_at and ttl together); a call raises only on
\* a store error.
C4_LastWriterWins ==
    [][\A p \in Procs :
        (IsCache(call[p]) /\ call'[p] = Idle)
        => \/ ret'[p].fault
           \/ /\ ret'[p].outcome = "return"
              /\ recommendations_table'[KeyOf(call[p])] = StoredRow(call[p].item)
      ]_vars

\* two calls on one key both returned True, and the row is the one of the
\* call that started first: its put was applied last
C4_Witness ==
    \E p, q \in Procs :
        /\ p # q
        /\ IsCache(ret[p]) /\ ret[p].outcome = "return"
        /\ IsCache(ret[q]) /\ ret[q].outcome = "return"
        /\ KeyOf(ret[p]) = KeyOf(ret[q])
        /\ ret[p].item.cached_at < ret[q].item.cached_at
        /\ ret[p].item.ttl # ret[q].item.ttl
        /\ ret[p].recommendations # ret[q].recommendations
        /\ recommendations_table[KeyOf(ret[p])] = StoredRow(ret[p].item)

\* C9 as claimed: an operation of the key-value adapter whose store call
\* failed ends by raising, so that no failure ends like a normal return.
C9_StoreFailureRaises ==
    \A p \in Procs :
        (ret[p].op # "none" /\ ret[p].fault) => ret[p].outcome = "raise"


(***************************************************************************)
(* The recommendation service as PersonalizeHelper sees it.                *)
(***************************************************************************)
\* maxResults of every list_* call
MaxResults == 100

personalize_dataset_group_name == "retail-dataset-group"
personalize_solution_name == "retail-recommendations"
personalize_campaign_name == "retail-campaign"

\* dataset_type as callers pass it, and dataset_type.lower()
DatasetTypes == {"INTERACTIONS", "Interactions"}
Lower(dataset_type) ==
    CASE dataset_type \in {"INTERACTIONS", "Interactions", "interactions"} -> "interactions"
      [] dataset_type \in {"USERS", "Users", "users"} -> "users"
      [] dataset_type \in {"ITEMS", "Items", "items"} -> "items"

Kinds == {"dataset_group", "dataset", "solution", "campaign",
          "import_job", "solution_version"}

\* the names the adapter derives; a solution version has none
dataset_group_name(tenant_id) == personalize_dataset_group_name \o "-" \o tenant_id
dataset_name(dataset_type, tenant_id) == Lower(dataset_type) \o "-" \o tenant_id
solution_name(tenant_id) == personalize_solution_name \o "-" \o tenant_id
campaign_name(tenant_id) == personalize_campaign_name \o "-" \o tenant_id
job_name(tenant_id, t) == "import-" \o tenant_id \o "-" \o ToString(Timestamp(t))

\* the ARN the service gives a resource: fixed by its kind and name
Arn(kind, name) == "arn:" \o kind \o "/" \o name

Resource(kind, name, parent, status) ==
    [name |-> name, arn |-> Arn(kind, name), parent |-> parent, status |-> status]

Names(kind) == {r.name : r \in personalize[kind]}

Min(a, b) == IF a < b THEN a ELSE b

\* the resources of a kind a list_* call ranges over: all of the account,
\* or those of one dataset group when datasetGroupArn is given
Listed(kind, parent) ==
    {r \in personalize[kind] : parent = "" \/ r.parent = parent}

OthersListed(kind) ==
    IF kind \in DOMAIN personalize.others THEN personalize.others[kind] ELSE 0

\* the responses a list_* call can get: one page of at most maxResults
\* entries, in an order the service chooses; no next page is asked for
ListPages(kind, parent, maxResults) ==
    LET all == Listed(kind, parent)
        size == Min(maxResults, Cardinality(all) + OthersListed(kind))
    IN  {page \in SUBSET all :
            /\ Cardinality(page) <= size
            /\ size - Cardinality(page) <= OthersListed(kind)}

Missing == [found |-> FALSE, error |-> FALSE]
\* a list_* call answered with a ClientError
Failed == [found |-> FALSE, error |-> TRUE]
Found(r) ==
    [found |-> TRUE, error |-> FALSE,
     arn |-> r.arn, name |-> r.name, status |-> r.status]

\* a lookup that takes any entry of the page
LookupAny(page, name) ==
    IF page # {} THEN Found(CHOOSE r \in page : TRUE) ELSE Missing

\* for entry in response: if entry['name'] == name: return ...
Lookup(page, name) ==
    IF \E r \in page : r.name = name
    THEN Found(CHOOSE r \in page : r.name = name)
    ELSE Missing


(***************************************************************************)
(* PersonalizeHelper: operations in progress and their results.            *)
(***************************************************************************)
\* what the recommendation-service adapter leaves alone
notPersonalize == <<recommendations_table, written, campaign_tracking_table, bucket,
                   pinpoint, user_profiles_table>>

NoComponents == [dataset_group |-> "", solution |-> "", campaign |-> ""]

\* existed: a resource of the derived name was there when the call began;
\* ready: the tenant's dataset group was there when the call began;
\* errors: the list_* calls answered with a ClientError, by stage and call
PzCall(op, kind, pc, stage, tenant_id, name, arg) ==
    [op |-> op, kind |-> kind, pc |-> pc, stage |-> stage,
     tenant_id |-> tenant_id, name |-> name, arg |-> arg,
     dataset_group_arn |-> "", components |-> NoComponents,
     existed |-> name \in Names(kind), exists |-> FALSE, fault |-> FALSE,
     ready |-> dataset_group_name(tenant_id) \in Names("dataset_group"),
     errors |-> {}]

CurrentStatus(kind, name) ==
    IF name \in Names(kind)
    THEN (CHOOSE r \in personalize[kind] : r.name = name).status
    ELSE "NOT_FOUND"

\* fits: every listing of the account fits in one page
PzResult(c, outcome, value) ==
    [op |-> c.op, kind |-> c.kind, tenant_id |-> c.tenant_id,
     name |-> c.name, arg |-> c.arg,
     outcome |-> outcome, value |-> value,
     existed |-> c.existed, exists |-> c.exists, fault |-> c.fault,
     ready |-> c.ready, errors |-> c.errors,
     current |-> CurrentStatus(c.kind, c.name),
     fits |-> \A k \in Kinds :
                 Cardinality(personalize[k]) + OthersListed(k) <= MaxResults]

Goto(p, c) ==
    /\ call' = [call EXCEPT ![p] = c]
    /\ UNCHANGED ret

Raise(p, c, message) == Return(p, PzResult(c, "raise", message))

\* the dict a get_* lookup or a create returns
Info(arn, name, status) == [arn |-> arn, name |-> name, status |-> status]

\* no create operation handles the already-exists answer
HasFallbackNone(op) == FALSE

\* the create operations whose handler tests for ResourceAlreadyExistsException
HasFallback(op) ==
    op \in {"create_dataset_group", "create_dataset", "create_solution", "create_campaign"}

(***************************************************************************)
(* PersonalizeHelper: the create operations.                               *)
(***************************************************************************)
create_dataset_group(p, tenant_id) ==
    /\ Begin(p, PzCall("create_dataset_group", "dataset_group", "create", "",
                       tenant_id, dataset_group_name(tenant_id), ""))
    /\ UNCHANGED <<notPersonalize, now, personalize>>

create_dataset(p, dataset_type, tenant_id) ==
    /\ Begin(p, PzCall("create_dataset", "dataset", "list_dataset_groups", "pre",
                       tenant_id, dataset_name(dataset_type, tenant_id), dataset_type))
    /\ UNCHANGED <<notPersonalize, now, personalize>>

import_data(p, dataset_arn, tenant_id) ==
    /\ Begin(p, PzCall("import_data", "import_job", "create", "",
                       tenant_id, job_name(tenant_id, now), dataset_arn))
    /\ UNCHANGED <<notPersonalize, now, personalize>>

create_solution(p, tenant_id) ==
    /\ Begin(p, PzCall("create_solution", "solution", "list_dataset_groups", "pre",
                       tenant_id, solution_name(tenant_id), ""))
    /\ UNCHANGED <<notPersonalize, now, personalize>>

create_solution_version(p, solution_arn, tenant_id) ==
    /\ Begin(p, PzCall("create_solution_version", "solution_version", "create", "",
                       tenant_id, "", solution_arn))
    /\ UNCHANGED <<notPersonalize, now, personalize>>

create_campaign(p, solution_version_arn, tenant_id) ==
    /\ Begin(p, PzCall("create_campaign", "campaign", "create", "",
                       tenant_id, campaign_name(tenant_id), solution_version_arn))
    /\ UNCHANGED <<notPersonalize, now, personalize>>

\* the first call of the lookup an already-exists answer falls back to
FallbackPc(op) ==
    IF op = "create_campaign" THEN "list_campaigns" ELSE "list_dataset_groups"

\* the versions the service holds of a solution
VersionsOf(solution_arn) ==
    {r \in personalize.solution_version : r.parent = solution_arn}

\* the resource a create call that is accepted adds to the account
Created(c) ==
    IF c.kind = "solution_version"
    THEN Resource(c.kind,
                  c.arg \o "/" \o ToString(Cardinality(VersionsOf(c.arg)) + 1),
                  c.arg, "CREATE PENDING")
    ELSE Resource(c.kind, c.name,
                  IF c.kind \in {"dataset", "solution"} THEN c.dataset_group_arn ELSE c.arg,
                  "CREATE PENDING")

\* the except ClientError handler of a create operation
create_failed(p, c, code) ==
    IF code = "ResourceAlreadyExistsException"
    THEN IF HasFallback(c.op)
         THEN Goto(p, [c EXCEPT !.pc = FallbackPc(c.op), !.stage = "fallback",
                                !.exists = TRUE])
         ELSE Raise(p, [c EXCEPT !.exists = TRUE], "failed: already exists")
    ELSE Raise(p, [c EXCEPT !.fault = TRUE], "failed: " \o code)

\* client.create_*: the service creates the resource and answers with its
\* ARN, or answers already-exists when it holds one of that name
create_call(p) ==
    LET c == call[p]
    IN  /\ c.op \in {"create_dataset_group", "create_dataset", "import_data",
                     "create_solution", "create_solution_version", "create_campaign"}
        /\ c.pc = "create"
        /\ IF c.kind # "solution_version" /\ c.name \in Names(c.kind)
           THEN /\ create_failed(p, c, "ResourceAlreadyExistsException")
                /\ UNCHANGED personalize
           ELSE /\ personalize' = [personalize EXCEPT ![c.kind] = @ \cup {Created(c)}]
                /\ Return(p, PzResult(c, "return",
                                      Info(Created(c).arn, c.name, "CREATING")))
        /\ UNCHANGED <<notPersonalize, now, ncalls>>

ErrorCodes == {"ResourceAlreadyExistsException", "ResourceInUseException"}

\* client.create_* answered with a ClientError of the service's choosing;
\* already-exists without a name only for a solution that has a version
create_call_error(p, code) ==
    LET c == call[p]
    IN  /\ c.op \in {"create_dataset_group", "create_dataset", "import_data",
                     "create_solution", "create_solution_version", "create_campaign"}
        /\ c.pc = "create"
        /\ code = "ResourceAlreadyExistsException"
           => (c.kind = "solution_version" /\ VersionsOf(c.arg) # {})
        /\ create_failed(p, c, code)
        /\ UNCHANGED <<notPersonalize, now, personalize, ncalls>>


(***************************************************************************)
(* PersonalizeHelper.get_training_status                                   *)
(***************************************************************************)
get_training_status(p, tenant_id) ==
    /\ Begin(p, PzCall("get_training_status", "dataset_group",
                       "list_dataset_groups", "dataset_group",
                       tenant_id, dataset_group_name(tenant_id), ""))
    /\ UNCHANGED <<notPersonalize, now, personalize>>

\* the reduction with the failed test taken before the creating test
overall_status_failed_first(component_statuses) ==
    IF \E k \in DOMAIN component_statuses :
          component_statuses[k] \in {"CREATE_FAILED", "FAILED"}
    THEN "FAILED"
    ELSE IF \E k \in DOMAIN component_statuses :
          component_statuses[k] \in {"CREATING", "CREATE_IN_PROGRESS"}
    THEN "TRAINING"
    ELSE IF \A k \in DOMAIN component_statuses : component_statuses[k] = "ACTIVE"
    THEN "READY"
    ELSE "INCOMPLETE"

\* the if / elif chain over component_statuses
overall_status(component_statuses) ==
    IF \E k \in DOMAIN component_statuses :
          component_statuses[k] \in {"CREATING", "CREATE_IN_PROGRESS"}
    THEN "TRAINING"
    ELSE IF \A k \in DOMAIN component_statuses : component_statuses[k] = "ACTIVE"
    THEN "READY"
    ELSE IF \E k \in DOMAIN component_statuses :
          component_statuses[k] \in {"CREATE_FAILED", "FAILED"}
    THEN "FAILED"
    ELSE "INCOMPLETE"

\* a probe that reports NOT_FOUND whatever the lookup returned
ComponentStatusNotFound(info) == "NOT_FOUND"

\* what a try / bare except around a lookup stores for the component
ComponentStatus(info) == IF info.found THEN info.status ELSE "NOT_FOUND"

StatusInfo(c, components) ==
    [tenant_id |-> c.tenant_id,
     overall_status |-> overall_status(components),
     components |-> components]

(***************************************************************************)
(* PersonalizeHelper: the lookups by derived name.                         *)
(***************************************************************************)
Faulted(c, info) ==
    [c EXCEPT !.fault = @ \/ info.error,
              !.errors = IF info.error THEN @ \cup {<<c.stage, c.pc>>} ELSE @]

\* what follows get_dataset_group in the operation that called it
\* a lookup that sends its list call again when it was answered with an error
retry_get_dataset_group(p, c0, info) ==
    IF info.error THEN Goto(p, Faulted(c0, info))
    ELSE Goto(p, [c0 EXCEPT !.pc = "list_campaigns", !.stage = "campaign"])

after_get_dataset_group(p, c0, info) ==
    LET c == Faulted(c0, info)
    IN  IF c.op = "get_training_status"
        THEN IF c.stage = "dataset_group"
             THEN Goto(p, [c EXCEPT !.stage = "solution",
                                    !.components.dataset_group = ComponentStatus(info)])
             ELSE IF info.found
             THEN Goto(p, [c EXCEPT !.pc = "list_solutions",
                                    !.dataset_group_arn = info.arn])
             ELSE Goto(p, [c EXCEPT !.pc = "list_campaigns", !.stage = "campaign",
                                    !.components.solution = "NOT_FOUND"])
        ELSE IF ~info.found
        THEN Raise(p, c, IF info.error THEN "Dataset group retrieval failed"
                         ELSE "Dataset group not found")
        ELSE IF c.op = "create_dataset_group"
        THEN Return(p, PzResult(c, "return", Info(info.arn, info.name, info.status)))
        ELSE IF c.stage = "pre"
        THEN Goto(p, [c EXCEPT !.pc = "create", !.dataset_group_arn = info.arn])
        ELSE Goto(p, [c EXCEPT !.dataset_group_arn = info.arn,
                               !.pc = IF c.op = "create_dataset" THEN "list_datasets"
                                      ELSE "list_solutions"])

\* what follows get_dataset, get_solution and get_campaign
after_get(p, c0, info) ==
    LET c == Faulted(c0, info)
    IN  IF c.op = "get_training_status"
        THEN IF c.stage = "solution"
             THEN Goto(p, [c EXCEPT !.pc = "list_campaigns", !.stage = "campaign",
                                    !.components.solution = ComponentStatus(info)])
             ELSE Return(p, PzResult(c, "return",
                     StatusInfo(c, [c.components EXCEPT
                                       !.campaign = ComponentStatus(info)])))
        ELSE IF ~info.found
        THEN Raise(p, c, IF info.error THEN "retrieval failed" ELSE "not found")
        ELSE Return(p, PzResult(c, "return", Info(info.arn, info.name, info.status)))

\* the name get_solution and get_campaign look for on behalf of
\* get_training_status, and the create operations for themselves
LookupName(c) ==
    IF c.op # "get_training_status" THEN c.name
    ELSE IF c.pc = "list_solutions" THEN solution_name(c.tenant_id)
    ELSE campaign_name(c.tenant_id)

\* client.list_dataset_groups(maxResults=100) answered
list_dataset_groups(p) ==
    LET c == call[p]
    IN  /\ c.op # "idle" /\ c.pc = "list_dataset_groups"
        /\ \E page \in ListPages("dataset_group", "", MaxResults) :
              after_get_dataset_group(p, c,
                  Lookup(page, dataset_group_name(c.tenant_id)))
        /\ UNCHANGED <<notPersonalize, now, personalize, ncalls>>

list_dataset_groups_error(p) ==
    LET c == call[p]
    IN  /\ c.op # "idle" /\ c.pc = "list_dataset_groups"
        /\ after_get_dataset_group(p, c, Failed)
        /\ UNCHANGED <<notPersonalize, now, personalize, ncalls>>

\* client.list_datasets(datasetGroupArn=..., maxResults=100) answered
list_datasets(p) ==
    LET c == call[p]
    IN  /\ c.op # "idle" /\ c.pc = "list_datasets"
        /\ \E page \in ListPages("dataset", c.dataset_group_arn, MaxResults) :
              after_get(p, c, Lookup(page, LookupName(c)))
        /\ UNCHANGED <<notPersonalize, now, personalize, ncalls>>

\* client.list_solutions(datasetGroupArn=..., maxResults=100) answered
list_solutions(p) ==
    LET c == call[p]
    IN  /\ c.op # "idle" /\ c.pc = "list_solutions"
        /\ \E page \in ListPages("solution", c.dataset_group_arn, MaxResults) :
              after_get(p, c, Lookup(page, LookupName(c)))
        /\ UNCHANGED <<notPersonalize, now, personalize, ncalls>>

\* client.list_campaigns(maxResults=100) answered
list_campaigns(p) ==
    LET c == call[p]
    IN  /\ c.op # "idle" /\ c.pc = "list_campaigns"
        /\ \E page \in ListPages("campaign", "", MaxResults) :
              after_get(p, c, Lookup(page, LookupName(c)))
        /\ UNCHANGED <<notPersonalize, now, personalize, ncalls>>

\* list_datasets, list_solutions or list_campaigns answered with a ClientError
list_error(p) ==
    LET c == call[p]
    IN  /\ c.op # "idle"
        /\ c.pc \in {"list_datasets", "list_solutions", "list_campaigns"}
        /\ after_get(p, c, Failed)
        /\ UNCHANGED <<notPersonalize, now, personalize, ncalls>>

\* the service works on what it was asked to create
service_progress(kind, name) ==
    /\ \E r \in personalize[kind] :
          /\ r.name = name
          /\ r.status \in {"CREATE PENDING", "CREATE IN_PROGRESS"}
          /\ \E status \in (IF r.status = "CREATE PENDING"
                            THEN {"CREATE IN_PROGRESS"}
                            ELSE {"ACTIVE", "CREATE FAILED"}) :
                personalize' = [personalize EXCEPT ![kind] =
                                   (@ \ {r}) \cup {[r EXCEPT !.status = status]}]
    /\ UNCHANGED <<notPersonalize, now, call, ret, ncalls>>


(***************************************************************************)
(* get_training_status against accounts in every combination of statuses.  *)
(***************************************************************************)
\* the status strings the reduction tests for, and one it does not
StatusStrings ==
    {"ACTIVE", "CREATING", "CREATE_IN_PROGRESS", "FAILED", "CREATE_FAILED",
     "CREATE PENDING"}

\* an account where tenant_id has a dataset group, a solution in it and a
\* campaign, each in the given status; "" for a resource not created
Account(tenant_id, dg, sol, camp, others) ==
    LET dg_arn == Arn("dataset_group", dataset_group_name(tenant_id))
    IN  [NoResources EXCEPT
            !.dataset_group = IF dg = "" THEN {}
                ELSE {Resource("dataset_group", dataset_group_name(tenant_id), "", dg)},
            !.solution = IF sol = "" THEN {}
                ELSE {Resource("solution", solution_name(tenant_id), dg_arn, sol)},
            !.campaign = IF camp = "" THEN {}
                ELSE {Resource("campaign", campaign_name(tenant_id), "", camp)},
            !.others = others]

\* a page full of dataset groups and of campaigns of other tenants
FullPages == [dataset_group |-> MaxResults, campaign |-> MaxResults]

InitStatus ==
    /\ now = 0
    /\ pinpoint = {}
    /\ user_profiles_table = [k \in Keys |-> NoProfile]
    /\ recommendations_table = [k \in Keys |-> NoItem]
    /\ call = [p \in Procs |-> Idle]
    /\ ret = [p \in Procs |-> NoRet]
    /\ written = [k \in Keys |-> NoWrite]
    /\ ncalls = 0
    /\ campaign_tracking_table = {}
    /\ bucket = {}
    /\ \/ \E dg, sol, camp \in StatusStrings \cup {""} :
             /\ sol # "" => dg # ""
             /\ camp # "" => sol # ""
             /\ personalize = Account("tA", dg, sol, camp, NoResources.others)
       \/ personalize = Account("tA", "ACTIVE", "ACTIVE", "ACTIVE", FullPages)

NextStatus ==
    \/ \E p \in Procs, t \in Tenants : get_training_status(p, t)
    \/ \E p \in Procs :
          \/ list_dataset_groups(p)
          \/ list_dataset_groups_error(p)
          \/ list_solutions(p)
          \/ list_campaigns(p)
          \/ list_error(p)

SpecStatus == InitStatus /\ [][NextStatus]_vars

IsStatus(r) == r.op = "get_training_status"

Creating(components) ==
    \E k \in DOMAIN components : components[k] \in {"CREATING", "CREATE_IN_PROGRESS"}
AllActive(components) ==
    \A k \in DOMAIN components : components[k] = "ACTIVE"
AnyFailed(components) ==
    \E k \in DOMAIN components : components[k] \in {"FAILED", "CREATE_FAILED"}

\* C5: the overall_status of every get_training_status result is TRAINING
\* when a component is CREATING or CREATE_IN_PROGRESS; otherwise READY when
\* dataset_group, solution and campaign are all ACTIVE; otherwise FAILED
\* when a component is FAILED or CREATE_FAILED; otherwise INCOMPLETE.  So
\* READY means all three ACTIVE, and a creating component wins over a
\* failed one.
C5_OverallStatusIsOrderedReduction ==
    \A p \in Procs :
        IsStatus(ret[p]) =>
            LET components == ret[p].value.components
                overall == ret[p].value.overall_status
            IN  /\ DOMAIN components = {"dataset_group", "solution", "campaign"}
                /\ Creating(components) => overall = "TRAINING"
                /\ (~Creating(components) /\ AllActive(components))
                      => overall = "READY"
                /\ (~Creating(components) /\ ~AllActive(components)
                      /\ AnyFailed(components)) => overall = "FAILED"
                /\ (~Creating(components) /\ ~AllActive(components)
                      /\ ~AnyFailed(components)) => overall = "INCOMPLETE"
                /\ overall = "READY" => AllActive(components)

\* a result is TRAINING with a creating and a failed component, and
\* another request got INCOMPLETE because one of its lookups failed
C5_Witness ==
    \E p, q \in Procs :
        /\ IsStatus(ret[p]) /\ IsStatus(ret[q])
        /\ Creating(ret[p].value.components)
        /\ AnyFailed(ret[p].value.components)
        /\ ret[p].value.overall_status = "TRAINING"
        /\ ret[q].fault
        /\ ret[q].value.overall_status = "INCOMPLETE"

\* a result is READY with the three components ACTIVE
C5_WitnessReady ==
    \E p \in Procs :
        /\ IsStatus(ret[p]) /\ ~ret[p].fault
        /\ AllActive(ret[p].value.components)
        /\ ret[p].value.overall_status = "READY"

Components == {"dataset_group", "solution", "campaign"}

\* the status the service holds for the component of the result's tenant,
\* NOT_FOUND when it holds none
OwnStatus(r, kind) ==
    CurrentStatus(kind,
        CASE kind = "dataset_group" -> dataset_group_name(r.tenant_id)
          [] kind = "solution" -> solution_name(r.tenant_id)
          [] kind = "campaign" -> campaign_name(r.tenant_id))

\* a service call of the probe of the component was answered with an error
ProbeError(r, kind) == \E e \in r.errors : e[1] = kind

\* C13: every get_training_status returns; its result carries exactly the
\* components dataset_group, solution and campaign; a component whose
\* resource does not exist, or whose probe had a service call answered with
\* an error, is reported NOT_FOUND; and the overall status is one of the
\* four values of the reduction, never READY with a NOT_FOUND component.
C13_LookupFailureIsNotFound ==
    \A p \in Procs :
        IsStatus(ret[p]) =>
            LET components == ret[p].value.components
                overall == ret[p].value.overall_status
            IN  /\ ret[p].outcome = "return"
                /\ DOMAIN components = Components
                /\ \A k \in Components :
                      (ProbeError(ret[p], k) \/ OwnStatus(ret[p], k) = "NOT_FOUND")
                      => components[k] = "NOT_FOUND"
                /\ overall \in {"TRAINING", "READY", "FAILED", "INCOMPLETE"}
                /\ (\E k \in Components : components[k] = "NOT_FOUND")
                      => overall # "READY"
                /\ Creating(components) => overall = "TRAINING"

\* the listing of dataset groups failed although the group exists, the
\* solution is being created and there is no campaign: the result is
\* TRAINING with the two other components NOT_FOUND
C13_Witness ==
    \E p \in Procs :
        /\ IsStatus(ret[p])
        /\ <<"dataset_group", "list_dataset_groups">> \in ret[p].errors
        /\ OwnStatus(ret[p], "dataset_group") # "NOT_FOUND"
        /\ OwnStatus(ret[p], "campaign") = "NOT_FOUND"
        /\ ret[p].value.components =
              [dataset_group |-> "NOT_FOUND", solution |-> "CREATING",
               campaign |-> "NOT_FOUND"]
        /\ ret[p].value.overall_status = "TRAINING"

\* the list_* call that get_solution and get_campaign make for themselves
OwnList(kind) == IF kind = "solution" THEN "list_solutions" ELSE "list_campaigns"

\* C14 as claimed: the status reported for the solution and for the
\* campaign is that resource's own status whenever the resource exists and
\* its own listing is answered, whatever became of a dataset-group lookup.
C14_ProbesAreIndependent ==
    \A p \in Procs :
        IsStatus(ret[p]) =>
            \A k \in {"solution", "campaign"} :
                (/\ OwnStatus(ret[p], k) # "NOT_FOUND"
                 /\ <<k, OwnList(k)>> \notin ret[p].errors)
                => ret[p].value.components[k] = OwnStatus(ret[p], k)

\* C14, amended: the status reported for the solution or the campaign is
\* the resource's own status or NOT_FOUND.  It is the own status when the
\* resource exists, every service call of its probe is answered and the
\* account's listings fit in one page, whatever became of the first,
\* separate probe of the dataset group.  The probe of the solution looks
\* the dataset group up again: when that call is answered with an error
\* the solution is reported NOT_FOUND although it exists.
C14_SolutionProbeNeedsDatasetGroup ==
    \A p \in Procs :
        IsStatus(ret[p]) =>
            LET components == ret[p].value.components
            IN  /\ \A k \in {"solution", "campaign"} :
                      /\ components[k] \in {OwnStatus(ret[p], k), "NOT_FOUND"}
                      /\ (/\ OwnStatus(ret[p], k) # "NOT_FOUND"
                          /\ ~ProbeError(ret[p], k)
                          /\ ret[p].fits)
                         => components[k] = OwnStatus(ret[p], k)
                /\ <<"solution", "list_dataset_groups">> \in ret[p].errors
                      => components.solution = "NOT_FOUND"

\* one request lost its first dataset-group probe and still got the own
\* statuses of the solution and the campaign; another lost the dataset-group
\* lookup inside the solution probe and got NOT_FOUND for the existing
\* solution, and the campaign's own status
C14_Witness ==
    \E p, q \in Procs :
        /\ IsStatus(ret[p]) /\ IsStatus(ret[q])
        /\ ret[p].errors = {<<"dataset_group", "list_dataset_groups">>}
        /\ ret[p].value.components =
              [dataset_group |-> "NOT_FOUND", solution |-> "ACTIVE",
               campaign |-> "CREATE_IN_PROGRESS"]
        /\ ret[q].errors = {<<"solution", "list_dataset_groups">>}
        /\ OwnStatus(ret[q], "solution") = "ACTIVE"
        /\ ret[q].value.components =
              [dataset_group |-> "ACTIVE", solution |-> "NOT_FOUND",
               campaign |-> "CREATE_IN_PROGRESS"]


(***************************************************************************)
(* The recommendation-service adapter under concurrent requests.           *)
(***************************************************************************)
OtherCounts == [{"dataset_group", "campaign"} -> {0, MaxResults}]

\* the account is new, or tenant tA has its dataset group and solution
InitPersonalize ==
    /\ now = 0
    /\ pinpoint = {}
    /\ user_profiles_table = [k \in Keys |-> NoProfile]
    /\ recommendations_table = [k \in Keys |-> NoItem]
    /\ call = [p \in Procs |-> Idle]
    /\ ret = [p \in Procs |-> NoRet]
    /\ written = [k \in Keys |-> NoWrite]
    /\ ncalls = 0
    /\ campaign_tracking_table = {}
    /\ bucket = {}
    /\ \E others \in OtherCounts :
          \/ personalize = [NoResources EXCEPT !.others = others]
          \/ personalize = Account("tA", "ACTIVE", "ACTIVE", "", others)

NextPersonalize ==
    \/ \E p \in Procs, t \in Tenants :
          \/ create_dataset_group(p, t)
          \/ \E dataset_type \in DatasetTypes : create_dataset(p, dataset_type, t)
          \/ \E r \in personalize.dataset : import_data(p, r.arn, t)
          \/ create_solution(p, t)
          \/ \E r \in personalize.solution : create_solution_version(p, r.arn, t)
          \/ \E r \in personalize.solution_version : create_campaign(p, r.arn, t)
    \/ \E p \in Procs :
          \/ create_call(p)
          \/ \E code \in ErrorCodes : create_call_error(p, code)
          \/ list_dataset_groups(p)
          \/ list_dataset_groups_error(p)
          \/ list_datasets(p)
          \/ list_solutions(p)
          \/ list_campaigns(p)
          \/ list_error(p)
    \/ \E kind \in Kinds : \E name \in Names(kind) : service_progress(kind, name)

SpecPersonalize == InitPersonalize /\ [][NextPersonalize]_vars


(***************************************************************************)
(* Claims about the create operations.                                     *)
(***************************************************************************)
CreateOrGetOps ==
    {"create_dataset_group", "create_dataset", "create_solution", "create_campaign"}

CreateOps == CreateOrGetOps \cup {"import_data", "create_solution_version"}

\* C6: a create_dataset_group, create_dataset, create_solution or
\* create_campaign that is called when the tenant's resource of that kind is
\* already there, and whose service calls are all answered, does not raise;
\* and every such create that returns, the first as well as a repeated one,
\* returns the derived name and the ARN the service gave that name.
C6_CreateTwiceSameNameAndArn ==
    \A p \in Procs :
        (ret[p].op \in CreateOrGetOps /\ ~ret[p].fault)
        => /\ ret[p].existed => ret[p].outcome = "return"
           /\ ret[p].outcome = "return"
                 => /\ ret[p].value.name = ret[p].name
                    /\ ret[p].value.arn = Arn(ret[p].kind, ret[p].name)

\* C10 as stated: every create operation that is answered already-exists,
\* import_data and create_solution_version included, returns the resource's
\* current state.
C10_EveryCreateFallsBack ==
    \A p \in Procs :
        (ret[p].op \in CreateOps /\ ret[p].exists /\ ~ret[p].fault)
        => /\ ret[p].outcome = "return"
           /\ ret[p].value.status = ret[p].current

\* C10, amended: create_dataset_group, create_dataset, create_solution and
\* create_campaign answered already-exists look the resource up by its
\* derived name in one listing page and return its name, ARN and current
\* status when the page holds it, which it does whenever the account's
\* listings fit in a page; they raise not-found otherwise.  import_data and
\* create_solution_version answered already-exists raise.
C10_CreateOrGetFallsBack ==
    \A p \in Procs :
        (ret[p].op \in CreateOps /\ ret[p].exists /\ ~ret[p].fault)
        => IF ret[p].op \in CreateOrGetOps
           THEN /\ ret[p].outcome = "return"
                     => ret[p].value = Info(Arn(ret[p].kind, ret[p].name),
                                            ret[p].name, ret[p].current)
                /\ ret[p].outcome = "raise"
                     => ret[p].value \in {"Dataset group not found", "not found"}
                /\ ret[p].fits => ret[p].outcome = "return"
           ELSE ret[p].outcome = "raise"

\* a create_solution answered already-exists returned the ACTIVE solution,
\* and a create_solution_version answered already-exists raised
C10_Witness ==
    \E p, q \in Procs :
        /\ ret[p].op = "create_solution" /\ ret[p].exists /\ ~ret[p].fault
        /\ ret[p].outcome = "return" /\ ret[p].value.status = "ACTIVE"
        /\ ret[q].op = "create_solution_version" /\ ret[q].exists /\ ~ret[q].fault
        /\ ret[q].outcome = "raise"

\* two import_data of a tenant in one second: the second is answered
\* already-exists and raises
C10_WitnessImport ==
    \E p \in Procs :
        /\ ret[p].op = "import_data" /\ ret[p].exists /\ ~ret[p].fault
        /\ ret[p].outcome = "raise"
        /\ ret[p].name \in Names("import_job")

\* the create operations of a tenant's dataset group, solution and campaign
RaceOps == {"create_dataset_group", "create_solution", "create_campaign"}

\* two requests made the same create call for a tenant, each begun before
\* the resource was there, and every service call of both was answered
Raced(p, q) ==
    /\ p # q
    /\ ret[p].op \in RaceOps /\ ret[q].op = ret[p].op
    /\ ret[q].tenant_id = ret[p].tenant_id
    /\ ~ret[p].existed /\ ~ret[q].existed
    /\ ~ret[p].fault /\ ~ret[q].fault
    /\ ret[p].op = "create_solution" => (ret[p].ready /\ ret[q].ready)

\* C11: when two requests concurrently make the same create call
\* (create_dataset_group, create_solution, create_campaign) for one tenant,
\* then in every interleaving one resource of the derived name exists
\* afterwards and both calls return, with that resource's ARN; neither
\* raises.
C11_ConcurrentCreatesBothReturn ==
    \A p, q \in Procs :
        Raced(p, q)
        => /\ Cardinality({r \in personalize[ret[p].kind] :
                              r.name = ret[p].name}) = 1
           /\ ret[p].outcome = "return" /\ ret[q].outcome = "return"
           /\ ret[p].value.arn = Arn(ret[p].kind, ret[p].name)
           /\ ret[q].value.arn = Arn(ret[q].kind, ret[q].name)


(***************************************************************************)
(* Python floats of get_campaign_metrics: IEEE 754 binary64, kept as the   *)
(* 53 bits of the significand, first bit first, and the exponent of the    *)
(* first bit.  Division and multiplication round to nearest, ties to even. *)
(***************************************************************************)
SignificandBits == 53

FloatZero == [py |-> "float64", bits |-> <<>>, exp |-> 0]

Zeros(n) == [i \in 1..n |-> 0]

\* binary digits of a natural number, first bit first; <<>> for 0
RECURSIVE BitsOf(_)
BitsOf(n) == IF n = 0 THEN <<>> ELSE Append(BitsOf(n \div 2), n % 2)

StripZeros(bits) ==
    IF \A i \in 1..Len(bits) : bits[i] = 0 THEN <<>>
    ELSE LET first == CHOOSE i \in 1..Len(bits) :
                         bits[i] = 1 /\ \A j \in 1..(i - 1) : bits[j] = 0
         IN  SubSeq(bits, first, Len(bits))

Pad(bits, n) == Zeros(n - Len(bits)) \o bits

\* sum of two bit strings: the carry into a place comes from a lower place
\* where both bits are set, through places where at least one is
Sum(a, b) ==
    LET n == (IF Len(a) > Len(b) THEN Len(a) ELSE Len(b)) + 1
        x == Pad(a, n)
        y == Pad(b, n)
        carry(i) == \E j \in (i + 1)..n :
                       /\ x[j] = 1 /\ y[j] = 1
                       /\ \A k \in (i + 1)..(j - 1) : x[k] + y[k] >= 1
    IN  StripZeros([i \in 1..n |->
                       (x[i] + y[i] + (IF carry(i) THEN 1 ELSE 0)) % 2])

\* product of a bit string and a natural number
RECURSIVE Times(_, _)
Times(bits, n) ==
    IF n = 0 THEN <<>>
    ELSE LET twice == Times(bits \o <<0>>, n \div 2)
         IN  IF n % 2 = 1 THEN Sum(twice, bits) ELSE twice

\* a bit string of any length, and whether bits were lost below it,
\* rounded to a float whose first bit has the given exponent
Round(bits, exp, sticky) ==
    IF Len(bits) <= SignificandBits
    THEN [py |-> "float64", bits |-> bits \o Zeros(SignificandBits - Len(bits)),
          exp |-> exp]
    ELSE LET kept == SubSeq(bits, 1, SignificandBits)
             guard == bits[SignificandBits + 1]
             rest == \/ sticky
                     \/ \E i \in (SignificandBits + 2)..Len(bits) : bits[i] = 1
             up == guard = 1 /\ (rest \/ kept[SignificandBits] = 1)
             sum == Sum(kept, <<1>>)
         IN  IF ~up THEN [py |-> "float64", bits |-> kept, exp |-> exp]
             ELSE [py |-> "float64", bits |-> SubSeq(sum, 1, SignificandBits),
                   exp |-> exp + Len(sum) - SignificandBits]

\* float(n) of a natural number
Float(n) ==
    IF n = 0 THEN FloatZero ELSE Round(BitsOf(n), Len(BitsOf(n)) - 1, FALSE)

\* the exponent of the first bit of n / d
RECURSIVE QuotientExp(_, _)
QuotientExp(n, d) ==
    IF n >= 2 * d THEN QuotientExp(n, 2 * d) + 1
    ELSE IF n < d THEN QuotientExp(2 * n, d) - 1
    ELSE 0

\* 2^k mod d for k up to 54, through powers that fit a machine word
Pow2Mod(k, d) ==
    IF k <= 27 THEN Pow(2, k) % d
    ELSE ((Pow(2, 27) % d) * (Pow(2, k - 27) % d)) % d

\* (n * 2^k) mod d
ShiftedMod(n, k, d) == ((n % d) * Pow2Mod(k, d)) % d

\* the first k bits of n / d for d <= n < 2 * d
QuotientBits(n, d, k) ==
    [i \in 1..k |->
        IF i = 1 THEN 1
        ELSE IF 2 * ShiftedMod(n, i - 2, d) >= d THEN 1 ELSE 0]

\* n / d of two small natural numbers, d > 0
TrueDiv(n, d) ==
    IF n = 0 THEN FloatZero
    ELSE LET exp == QuotientExp(n, d)
             num == IF exp < 0 THEN n * Pow(2, 0 - exp) ELSE n
             den == IF exp > 0 THEN d * Pow(2, exp) ELSE d
         IN  Round(QuotientBits(num, den, SignificandBits + 1), exp,
                   ShiftedMod(num, SignificandBits, den) # 0)

\* x * n for a float x and a small natural number n
FloatTimes(x, n) ==
    IF x = FloatZero \/ n = 0 THEN FloatZero
    ELSE LET product == Times(x.bits, n)
         IN  Round(product, x.exp + Len(product) - SignificandBits, FALSE)


(***************************************************************************)
(* DynamoDBHelper: campaign tracking.                                      *)
(***************************************************************************)
Campaigns == {"c1"}
EventTypes == {"sent", "opened", "clicked", "converted"}

\* timedelta(days=90), in ticks
RetentionDays == 90
HoursPerDay == 24
Retention == RetentionDays * HoursPerDay * TicksPerHour

\* what campaign tracking leaves alone
notTracking == <<recommendations_table, written, personalize, bucket, pinpoint,
                user_profiles_table>>

\* f"{campaign_id}#{user_id}#{int(datetime.utcnow().timestamp())}"
event_id(campaign_id, user_id, t) ==
    campaign_id \o "#" \o user_id \o "#" \o ToString(Timestamp(t))

EventItem(tenant_id, campaign_id, user_id, event_type, t) ==
    [tenant_id |-> tenant_id,
     event_id |-> event_id(campaign_id, user_id, t),
     campaign_id |-> campaign_id, user_id |-> user_id,
     event_type |-> event_type,
     ttl |-> Timestamp(t + Retention)]

\* a put_item that keeps the rows already stored under the item's key
PutEventAlongside(table, item) == table \cup {item}

\* Table.put_item on the tracking table: one row per (tenant_id, event_id)
PutEvent(table, item) ==
    {r \in table : ~(r.tenant_id = item.tenant_id /\ r.event_id = item.event_id)}
        \cup {item}

\* a query of campaign-index on campaign_id alone
QueryAnyTenant(table, tenant_id, campaign_id) ==
    {r \in table : r.campaign_id = campaign_id}

\* Table.query on campaign-index with tenant_id = .. and campaign_id = ..
Query(table, tenant_id, campaign_id) ==
    {r \in table : r.tenant_id = tenant_id /\ r.campaign_id = campaign_id}

TrackResult(tenant_id, campaign_id, fault) ==
    [op |-> "track_campaign_event", tenant_id |-> tenant_id,
     campaign_id |-> campaign_id,
     outcome |-> "return", value |-> PyBool(~fault), fault |-> fault]

\* the put_item answered: True returned
track_campaign_event(p, tenant_id, campaign_id, user_id, event_type) ==
    /\ call[p].op = "idle" /\ ncalls < MaxCalls
    /\ ncalls' = ncalls + 1
    /\ campaign_tracking_table' =
          PutEvent(campaign_tracking_table,
                   EventItem(tenant_id, campaign_id, user_id, event_type, now))
    /\ ret' = [ret EXCEPT ![p] = TrackResult(tenant_id, campaign_id, FALSE)]
    /\ UNCHANGED <<notTracking, now, call>>

\* the put_item answered with a ClientError: logged, False returned
track_campaign_event_error(p, tenant_id, campaign_id) ==
    /\ call[p].op = "idle" /\ ncalls < MaxCalls
    /\ ncalls' = ncalls + 1
    /\ ret' = [ret EXCEPT ![p] = TrackResult(tenant_id, campaign_id, TRUE)]
    /\ UNCHANGED <<notTracking, now, call, campaign_tracking_table>>

\* events_by_type: a count for each event_type met in the items
events_by_type(items) ==
    [event_type \in {r.event_type : r \in items} |->
        Cardinality({r \in items : r.event_type = event_type})]

\* metrics['events_by_type'].get(event_type, 0)
GetCount(counts, event_type) ==
    IF event_type \in DOMAIN counts THEN counts[event_type] ELSE 0

Per == 100

\* the percentage taken of the product: count * 100 / sent_count
RateOfProduct(count, sent_count) ==
    IF sent_count > 0 THEN TrueDiv(count * Per, sent_count) ELSE FloatZero

\* 0.0, or (count / sent_count) * 100 if sent_count > 0
Rate(count, sent_count) ==
    IF sent_count > 0 THEN FloatTimes(TrueDiv(count, sent_count), Per)
    ELSE FloatZero

Metrics(campaign_id, items) ==
    LET counts == events_by_type(items)
        sent_count == GetCount(counts, "sent")
        clicked_count == GetCount(counts, "clicked")
        converted_count == GetCount(counts, "converted")
    IN  [campaign_id |-> campaign_id,
         total_events |-> Cardinality(items),
         unique_users |-> Cardinality({r.user_id : r \in items}),
         events_by_type |-> counts,
         conversion_rate |-> Rate(converted_count, sent_count),
         click_through_rate |-> Rate(clicked_count, sent_count)]

\* table: the tracking table as it was when the query was answered
MetricsResult(tenant_id, campaign_id, value, fault) ==
    [op |-> "get_campaign_metrics", tenant_id |-> tenant_id,
     campaign_id |-> campaign_id,
     outcome |-> "return", value |-> value, fault |-> fault,
     table |-> campaign_tracking_table]

\* the query answered: the items counted and the rates derived
get_campaign_metrics(p, tenant_id, campaign_id) ==
    /\ call[p].op = "idle" /\ ncalls < MaxCalls
    /\ ncalls' = ncalls + 1
    /\ ret' = [ret EXCEPT ![p] =
          MetricsResult(tenant_id, campaign_id,
              Metrics(campaign_id,
                      Query(campaign_tracking_table, tenant_id, campaign_id)),
              FALSE)]
    /\ UNCHANGED <<notTracking, now, call, campaign_tracking_table>>

\* the query answered with a ClientError: a dict with the error returned
get_campaign_metrics_error(p, tenant_id, campaign_id) ==
    /\ call[p].op = "idle" /\ ncalls < MaxCalls
    /\ ncalls' = ncalls + 1
    /\ ret' = [ret EXCEPT ![p] =
          MetricsResult(tenant_id, campaign_id,
              [campaign_id |-> campaign_id, error |-> "ClientError"], TRUE)]
    /\ UNCHANGED <<notTracking, now, call, campaign_tracking_table>>


(***************************************************************************)
(* Campaign tracking over tables of every small mix of events.             *)
(***************************************************************************)
MaxEvents == 3

\* sent, clicked and converted events of the campaign under study
ExampleCounts == <<10, 3, 1>>
Counts == ((0..MaxEvents) \X (0..MaxEvents) \X (0..1)) \cup {ExampleCounts}

\* the i-th event of a table with the given counts
TypeAt(counts, i) ==
    IF i <= counts[1] THEN "sent"
    ELSE IF i <= counts[1] + counts[2] THEN "clicked"
    ELSE "converted"

\* a tracking table: the events of (tA, c1), each of another user, an event
\* of the same campaign id under tenant tB and one of another campaign of tA
Tracked(counts) ==
    {EventItem("tA", "c1", "v" \o ToString(i), TypeAt(counts, i), 0) :
        i \in 1..(counts[1] + counts[2] + counts[3])}
    \cup {EventItem("tB", "c1", "v1", "clicked", 0),
          EventItem("tA", "c2", "v1", "clicked", 0)}

InitMetrics ==
    /\ now = 0
    /\ pinpoint = {}
    /\ user_profiles_table = [k \in Keys |-> NoProfile]
    /\ recommendations_table = [k \in Keys |-> NoItem]
    /\ call = [p \in Procs |-> Idle]
    /\ ret = [p \in Procs |-> NoRet]
    /\ written = [k \in Keys |-> NoWrite]
    /\ ncalls = 0
    /\ personalize = NoResources
    /\ bucket = {}
    /\ \E counts \in Counts : campaign_tracking_table = Tracked(counts)

NextMetrics ==
    \/ \E p \in Procs, t \in Tenants, c \in Campaigns :
          \/ \E u \in Users, event_type \in EventTypes :
                track_campaign_event(p, t, c, u, event_type)
          \/ track_campaign_event_error(p, t, c)
          \/ get_campaign_metrics(p, t, c)
          \/ get_campaign_metrics_error(p, t, c)

SpecMetrics == InitMetrics /\ [][NextMetrics]_vars

(***************************************************************************)
(* Claims about get_campaign_metrics.                                      *)
(***************************************************************************)
IsMetrics(r) == r.op = "get_campaign_metrics"

\* the events of the result's tenant and campaign with the given type
Stored(r, event_type) ==
    Cardinality({e \in r.table :
        /\ e.tenant_id = r.tenant_id /\ e.campaign_id = r.campaign_id
        /\ e.event_type = event_type})

\* a < b for two bit strings without leading zeros
Less(a, b) ==
    \/ Len(a) < Len(b)
    \/ /\ Len(a) = Len(b)
       /\ \E i \in 1..Len(a) :
             /\ a[i] < b[i]
             /\ \A j \in 1..(i - 1) : a[j] = b[j]

\* the float x is within two units in its last place of num / den
Near(x, num, den) ==
    IF num = 0 THEN x = FloatZero
    ELSE /\ x # FloatZero
         /\ x.exp < SignificandBits
         /\ LET scaled == Times(x.bits, den)
                exact == BitsOf(num) \o Zeros(SignificandBits - 1 - x.exp)
                slack == BitsOf(2 * den)
            IN  /\ ~Less(Sum(scaled, slack), exact)
                /\ ~Less(Sum(exact, slack), scaled)

S3Tenants == {<<"t">>, <<"u">>}
S3Keys == {<<"x">>, <<"a">>, <<"t", "/", "x">>}
S3Prefixes == {<<>>, <<"t">>}

\* max_keys: int = 1000
DefaultMaxKeys == 1000
MaxKeysArgs == {1, DefaultMaxKeys}

\* what the object-store adapter leaves alone
notS3 == <<recommendations_table, written, campaign_tracking_table, personalize,
          pinpoint, user_profiles_table>>

\* the code point of a character
Code(ch) ==
    CASE ch = "/" -> 47
      [] ch = "a" -> 97
      [] ch = "t" -> 116
      [] ch = "u" -> 117
      [] ch = "x" -> 120

\* f"{tenant_id}/{key}"
full_key(tenant_id, key) == tenant_id \o <<"/">> \o key

StartsWith(str, prefix) ==
    /\ Len(prefix) <= Len(str)
    /\ SubSeq(str, 1, Len(prefix)) = prefix

\* the order in which the store lists keys: by code point, place by place
KeyBefore(a, b) ==
    \/ /\ Len(a) < Len(b)
       /\ SubSeq(b, 1, Len(a)) = a
    \/ \E i \in 1..Min(Len(a), Len(b)) :
          /\ Code(a[i]) < Code(b[i])
          /\ \A j \in 1..(i - 1) : a[j] = b[j]

\* where old occurs in str, first place first
Occurrences(str, old) ==
    {i \in 1..(Len(str) - Len(old) + 1) : SubSeq(str, i, i + Len(old) - 1) = old}

\* str with every occurrence of old taken out
RECURSIVE ReplaceAll(_, _)
ReplaceAll(str, old) ==
    IF Occurrences(str, old) = {} THEN str
    ELSE LET i == CHOOSE i \in Occurrences(str, old) :
                     \A j \in Occurrences(str, old) : i <= j
         IN  SubSeq(str, 1, i - 1)
                 \o ReplaceAll(SubSeq(str, i + Len(old), Len(str)), old)

\* str.replace(old, "", 1): str with its first occurrence of old taken out
ReplaceFirst(str, old) ==
    IF Occurrences(str, old) = {} THEN str
    ELSE LET i == CHOOSE i \in Occurrences(str, old) :
                     \A j \in Occurrences(str, old) : i <= j
         IN  SubSeq(str, 1, i - 1) \o SubSeq(str, i + Len(old), Len(str))

\* an object of the bucket; tenant_id is in its metadata, and given is the
\* key upload_file was called with
Object(tenant_id, key) ==
    [Key |-> full_key(tenant_id, key), tenant_id |-> tenant_id, given |-> key]

\* client.put_object: the object of that key is replaced
PutObject(objects, object) ==
    {o \in objects : o.Key # object.Key} \cup {object}

\* client.list_objects_v2(Prefix, MaxKeys): the first MaxKeys keys that
\* begin with the prefix, in key order
ListObjects(objects, prefix, max_keys) ==
    LET matching == {o.Key : o \in {o \in objects : StartsWith(o.Key, prefix)}}
        rank(k) == Cardinality({j \in matching : KeyBefore(j, k)})
        n == Min(max_keys, Cardinality(matching))
    IN  [i \in 1..n |-> CHOOSE k \in matching : rank(k) = i - 1]

S3Result(op, tenant_id, key, outcome, value, fault) ==
    [op |-> op, tenant_id |-> tenant_id, key |-> key,
     outcome |-> outcome, value |-> value, fault |-> fault,
     objects |-> bucket]

\* put_object answered: the upload information returned
upload_file(p, key, tenant_id) ==
    /\ call[p].op = "idle" /\ ncalls < MaxCalls
    /\ ncalls' = ncalls + 1
    /\ bucket' = PutObject(bucket, Object(tenant_id, key))
    /\ ret' = [ret EXCEPT ![p] =
          S3Result("upload_file", tenant_id, key, "return",
                   [key |-> full_key(tenant_id, key)], FALSE)]
    /\ UNCHANGED <<notS3, now, call>>

\* put_object answered with a ClientError: wrapped and raised
upload_file_error(p, key, tenant_id) ==
    /\ call[p].op = "idle" /\ ncalls < MaxCalls
    /\ ncalls' = ncalls + 1
    /\ ret' = [ret EXCEPT ![p] =
          S3Result("upload_file", tenant_id, key, "raise", "S3 upload failed", TRUE)]
    /\ UNCHANGED <<notS3, now, call, bucket>>

ListResult(tenant_id, prefix, max_keys, outcome, value, fault) ==
    [op |-> "list_files", tenant_id |-> tenant_id, prefix |-> prefix,
     max_keys |-> max_keys,
     outcome |-> outcome, value |-> value, fault |-> fault,
     objects |-> bucket]

\* list_objects_v2 answered: the keys returned with the tenant prefix removed
list_files(p, prefix, tenant_id, max_keys) ==
    LET contents == ListObjects(bucket, full_key(tenant_id, prefix), max_keys)
    IN  /\ call[p].op = "idle" /\ ncalls < MaxCalls
        /\ ncalls' = ncalls + 1
        /\ ret' = [ret EXCEPT ![p] =
              ListResult(tenant_id, prefix, max_keys, "return",
                  [i \in 1..Len(contents) |->
                      ReplaceFirst(contents[i], tenant_id \o <<"/">>)],
                  FALSE)]
        /\ UNCHANGED <<notS3, now, call, bucket>>

\* list_objects_v2 answered with a ClientError: wrapped and raised
list_files_error(p, prefix, tenant_id, max_keys) ==
    /\ call[p].op = "idle" /\ ncalls < MaxCalls
    /\ ncalls' = ncalls + 1
    /\ ret' = [ret EXCEPT ![p] =
          ListResult(tenant_id, prefix, max_keys, "raise", "S3 list failed", TRUE)]
    /\ UNCHANGED <<notS3, now, call, bucket>>

\* delete_object answered: True returned
delete_file(p, key, tenant_id) ==
    /\ call[p].op = "idle" /\ ncalls < MaxCalls
    /\ ncalls' = ncalls + 1
    /\ bucket' = {o \in bucket : o.Key # full_key(tenant_id, key)}
    /\ ret' = [ret EXCEPT ![p] =
          S3Result("delete_file", tenant_id, key, "return", PyBool(TRUE), FALSE)]
    /\ UNCHANGED <<notS3, now, call>>

\* delete_object answered with a ClientError: wrapped and raised
delete_file_error(p, key, tenant_id) ==
    /\ call[p].op = "idle" /\ ncalls < MaxCalls
    /\ ncalls' = ncalls + 1
    /\ ret' = [ret EXCEPT ![p] =
          S3Result("delete_file", tenant_id, key, "raise", "S3 delete failed", TRUE)]
    /\ UNCHANGED <<notS3, now, call, bucket>>

InitS3 ==
    /\ now = 0
    /\ pinpoint = {}
    /\ user_profiles_table = [k \in Keys |-> NoProfile]
    /\ recommendations_table = [k \in Keys |-> NoItem]
    /\ call = [p \in Procs |-> Idle]
    /\ ret = [p \in Procs |-> NoRet]
    /\ written = [k \in Keys |-> NoWrite]
    /\ ncalls = 0
    /\ campaign_tracking_table = {}
    /\ personalize = NoResources
    /\ bucket = {}

NextS3 ==
    \E p \in Procs, t \in S3Tenants :
        \/ \E k \in S3Keys :
              \/ upload_file(p, k, t)
              \/ upload_file_error(p, k, t)
              \/ delete_file(p, k, t)
              \/ delete_file_error(p, k, t)
        \/ \E prefix \in S3Prefixes, max_keys \in MaxKeysArgs :
              \/ list_files(p, prefix, t, max_keys)
              \/ list_files_error(p, prefix, t, max_keys)

SpecS3 == InitS3 /\ [][NextS3]_vars


(***************************************************************************)
(* Claims about upload_file and list_files.                                *)
(***************************************************************************)
IsList(r) == r.op = "list_files"
IsUpload(r) == r.op = "upload_file"

\* the objects a tenant had uploaded when the listing was answered
Mine(r) == {o \in r.objects : o.tenant_id = r.tenant_id}

Returned(r) == {r.value[i] : i \in 1..Len(r.value)}

\* every object is stored under tenant/key, and upload_file reports that path
StoredUnderTenant ==
    /\ \A o \in bucket : o.Key = o.tenant_id \o <<"/">> \o o.given
    /\ \A p \in Procs :
          (IsUpload(ret[p]) /\ ~ret[p].fault)
          => ret[p].value.key = ret[p].tenant_id \o <<"/">> \o ret[p].key

UsersInOrder == <<"u1">>

\* the clock is read before the query is sent
cleanup_expired_items(p, tenant_id) ==
    /\ Begin(p, [op |-> "cleanup_expired_items", pc |-> "query",
                 tenant_id |-> tenant_id,
                 current_timestamp |-> Timestamp(now),
                 items |-> <<>>, count |-> 0, removed |-> 0])
    /\ UNCHANGED <<notCache, now, recommendations_table, written>>

\* query(tenant_id = .., FilterExpression=Attr('ttl').lt(current_timestamp)):
\* the keys of the tenant's rows that pass the filter
ExpiredItems(table, tenant_id, current_timestamp) ==
    SelectSeq([i \in 1..Len(UsersInOrder) |-> <<tenant_id, UsersInOrder[i]>>],
              LAMBDA key : /\ table[key] # NoItem
                           /\ table[key].ttl < current_timestamp)

CleanupResult(c, value, fault) ==
    [op |-> c.op, tenant_id |-> c.tenant_id, removed |-> c.removed,
     outcome |-> "return", value |-> value, fault |-> fault]

\* the query of the recommendations table answered
cleanup_query(p) ==
    LET c == call[p]
        items == ExpiredItems(recommendations_table, c.tenant_id, c.current_timestamp)
    IN  /\ c.op = "cleanup_expired_items" /\ c.pc = "query"
        /\ call' = [call EXCEPT ![p] =
              [c EXCEPT !.items = items,
                        !.pc = IF items = <<>> THEN "count" ELSE "delete_item"]]
        /\ UNCHANGED <<notCache, now, recommendations_table, written, ret, ncalls>>

\* the delete_item of the next item of the loop answered
cleanup_delete_item(p) ==
    LET c == call[p]
        key == Head(c.items)
    IN  /\ c.op = "cleanup_expired_items" /\ c.pc = "delete_item"
        /\ recommendations_table' = DeleteItem(recommendations_table, key)
        /\ written' = [written EXCEPT ![key] =
              IF recommendations_table'[key] = NoItem THEN NoWrite ELSE @]
        /\ call' = [call EXCEPT ![p] =
              [c EXCEPT !.items = Tail(c.items), !.count = c.count + 1,
                        !.removed = IF recommendations_table[key] = NoItem
                                    THEN @ ELSE @ + 1,
                        !.pc = IF Tail(c.items) = <<>> THEN "count" ELSE "delete_item"]]
        /\ UNCHANGED <<notCache, now, ret, ncalls>>

\* the query of the tracking table answered: its Count is reported
cleanup_count(p) ==
    LET c == call[p]
        events == {r \in campaign_tracking_table :
                      r.tenant_id = c.tenant_id /\ r.ttl < c.current_timestamp}
    IN  /\ c.op = "cleanup_expired_items" /\ c.pc = "count"
        /\ Return(p, CleanupResult(c, [recommendations |-> c.count,
                                       campaigns |-> Cardinality(events)], FALSE))
        /\ UNCHANGED <<notCache, now, recommendations_table, written, ncalls>>

\* a query or a delete_item answered with a ClientError: a dict with the
\* error returned
cleanup_error(p) ==
    LET c == call[p]
    IN  /\ c.op = "cleanup_expired_items"
        /\ Return(p, CleanupResult(c, [error |-> "ClientError"], TRUE))
        /\ UNCHANGED <<notCache, now, recommendations_table, written, ncalls>>

(***************************************************************************)
(* The store's own expiry of rows by their ttl attribute.                  *)
(***************************************************************************)
\* the store removes a row some time after its ttl has passed
store_expiry(key) ==
    /\ recommendations_table[key] # NoItem
    /\ recommendations_table[key].ttl < Timestamp(now)
    /\ recommendations_table' = DeleteItem(recommendations_table, key)
    /\ written' = [written EXCEPT ![key] = NoWrite]
    /\ UNCHANGED <<notCache, now, call, ret, ncalls>>

(***************************************************************************)
(* The recommendation cache with its three ways of expiry.                 *)
(***************************************************************************)
NextExpiry ==
    \/ NextCache
    \/ \E p \in Procs, t \in Tenants : cleanup_expired_items(p, t)
    \/ \E p \in Procs :
          \/ cleanup_query(p)
          \/ cleanup_delete_item(p)
          \/ cleanup_count(p)
          \/ cleanup_error(p)
    \/ \E key \in Keys : store_expiry(key)

SpecExpiry == InitCache /\ [][NextExpiry]_vars

(***************************************************************************)
(* Claims about expiry.                                                    *)
(***************************************************************************)
IsCleanup(r) == r.op = "cleanup_expired_items"

\* the key whose row the delete_item in progress removes
DeleteKey(c) == IF IsGet(c) THEN KeyOf(c) ELSE Head(c.items)

\* C12: a get_cached_recommendations on its way to absent stays so when the
\* row is removed under it by the store's expiry or by another request: a
\* read that finds no row returns None, and a lazy-expiry delete_item that
\* finds the row already gone leaves the whole table as it was and the call
\* returns None without raising, whatever the store answers.
C12_LazyExpiryOfMissingRowIsNoOp ==
    [][\A p \in Procs :
        LET c == call[p] IN
        /\ (/\ IsGet(c) /\ c.pc = "get_item" /\ call'[p] # c
            /\ recommendations_table[KeyOf(c)] = NoItem)
           => /\ call'[p] = Idle
              /\ ret'[p].outcome = "return" /\ ret'[p].value = PyNone
              /\ recommendations_table' = recommendations_table
        /\ (/\ IsGet(c) /\ c.pc = "delete_item" /\ call'[p] # c
            /\ recommendations_table[KeyOf(c)] = NoItem)
           => /\ call'[p] = Idle
              /\ ret'[p].outcome = "return" /\ ret'[p].value = PyNone
              /\ recommendations_table' = recommendations_table
      ]_vars

\* a request read an expired row, the store's expiry or another request
\* removed it, and the request's own delete then found no row and the
\* call returned None; the other tenant's row is still there
C12_Witness ==
    \E p \in Procs :
        /\ IsGet(ret[p]) /\ ret[p].item # NoItem
        /\ ret[p].expired /\ ret[p].deleted /\ ret[p].gone
        /\ ret[p].outcome = "return" /\ ret[p].value = PyNone
        /\ recommendations_table[KeyOf(ret[p])] = NoItem
        /\ \E k \in Keys : recommendations_table[k] # NoItem

\* C20: a delete_item of the lazy expiry of get_cached_recommendations or of
\* the sweep of cleanup_expired_items never removes a row whose ttl is in
\* the future, in any interleaving with cache_recommendations.
C20_ExpiryDeletesOnlyExpiredRows ==
    [][\A p \in Procs :
        LET c == call[p] IN
        (/\ IsGet(c) \/ IsCleanup(c)
         /\ c.pc = "delete_item" /\ call'[p] # c
         /\ recommendations_table[DeleteKey(c)] # NoItem
         /\ recommendations_table'[DeleteKey(c)] = NoItem)
        => ~(recommendations_table[DeleteKey(c)].ttl > Timestamp(now))
      ]_vars


(***************************************************************************)
(* S3Helper: download_file, copy_file and get_file_metadata.               *)
(***************************************************************************)
\* error codes of a ClientError other than NoSuchKey
S3ErrorCodes == {"AccessDenied", "SlowDown"}

IsStored(key) == \E o \in bucket : o.Key = key
StoredObject(key) == CHOOSE o \in bucket : o.Key = key

\* an except clause that wraps every ClientError alike
WrappedAlike(code, message) == [type |-> "Exception", message |-> message]

\* except ClientError: FileNotFoundError for NoSuchKey, else a wrapping
\* Exception with the operation's message
Wrapped(code, message) ==
    IF code = "NoSuchKey"
    THEN [type |-> "FileNotFoundError", message |-> "not found"]
    ELSE [type |-> "Exception", message |-> message]

\* get_object answered: the body returned, or NoSuchKey when no object has
\* the key
download_file(p, key, tenant_id) ==
    /\ call[p].op = "idle" /\ ncalls < MaxCalls
    /\ ncalls' = ncalls + 1
    /\ ret' = [ret EXCEPT ![p] =
          IF IsStored(full_key(tenant_id, key))
          THEN S3Result("download_file", tenant_id, key, "return",
                        StoredObject(full_key(tenant_id, key)), FALSE)
          ELSE S3Result("download_file", tenant_id, key, "raise",
                        Wrapped("NoSuchKey", "S3 download failed"), FALSE)]
    /\ UNCHANGED <<notS3, now, call, bucket>>

\* get_object answered with another ClientError
download_file_error(p, key, tenant_id, code) ==
    /\ call[p].op = "idle" /\ ncalls < MaxCalls
    /\ ncalls' = ncalls + 1
    /\ ret' = [ret EXCEPT ![p] =
          S3Result("download_file", tenant_id, key, "raise",
                   Wrapped(code, "S3 download failed"), TRUE)]
    /\ UNCHANGED <<notS3, now, call, bucket>>

CopyResult(tenant_id, source_key, dest_key, outcome, value, fault) ==
    [op |-> "copy_file", tenant_id |-> tenant_id,
     key |-> source_key, dest_key |-> dest_key,
     outcome |-> outcome, value |-> value, fault |-> fault,
     objects |-> bucket]

\* copy_object answered: the object is copied under the destination key and
\* the copy information returned; NoSuchKey when there is no source object
copy_file(p, source_key, dest_key, tenant_id) ==
    /\ call[p].op = "idle" /\ ncalls < MaxCalls
    /\ ncalls' = ncalls + 1
    /\ IF IsStored(full_key(tenant_id, source_key))
       THEN /\ bucket' = PutObject(bucket, Object(tenant_id, dest_key))
            /\ ret' = [ret EXCEPT ![p] =
                  CopyResult(tenant_id, source_key, dest_key, "return",
                      [source_key |-> full_key(tenant_id, source_key),
                       dest_key |-> full_key(tenant_id, dest_key)], FALSE)]
       ELSE /\ UNCHANGED bucket
            /\ ret' = [ret EXCEPT ![p] =
                  CopyResult(tenant_id, source_key, dest_key, "raise",
                      [type |-> "Exception", message |-> "S3 copy failed"], FALSE)]
    /\ UNCHANGED <<notS3, now, call>>

\* copy_object answered with another ClientError
copy_file_error(p, source_key, dest_key, tenant_id, code) ==
    /\ call[p].op = "idle" /\ ncalls < MaxCalls
    /\ ncalls' = ncalls + 1
    /\ ret' = [ret EXCEPT ![p] =
          CopyResult(tenant_id, source_key, dest_key, "raise",
                     [type |-> "Exception", message |-> "S3 copy failed"], TRUE)]
    /\ UNCHANGED <<notS3, now, call, bucket>>

\* the codes the store may give a head_object of a key it does not hold
MissingCodes == {"NoSuchKey", "404"}

\* head_object answered: the metadata returned under the key as given
get_file_metadata(p, key, tenant_id) ==
    /\ call[p].op = "idle" /\ ncalls < MaxCalls
    /\ ncalls' = ncalls + 1
    /\ IF IsStored(full_key(tenant_id, key))
       THEN ret' = [ret EXCEPT ![p] =
               S3Result("get_file_metadata", tenant_id, key, "return",
                        [key |-> key], FALSE)]
       ELSE \E code \in MissingCodes :
               ret' = [ret EXCEPT ![p] =
                  S3Result("get_file_metadata", tenant_id, key, "raise",
                           Wrapped(code, "S3 metadata retrieval failed"), FALSE)]
    /\ UNCHANGED <<notS3, now, call, bucket>>

\* head_object answered with another ClientError
get_file_metadata_error(p, key, tenant_id, code) ==
    /\ call[p].op = "idle" /\ ncalls < MaxCalls
    /\ ncalls' = ncalls + 1
    /\ ret' = [ret EXCEPT ![p] =
          S3Result("get_file_metadata", tenant_id, key, "raise",
                   Wrapped(code, "S3 metadata retrieval failed"), TRUE)]
    /\ UNCHANGED <<notS3, now, call, bucket>>

(***************************************************************************)
(* The object-store adapter with all its operations on keys.               *)
(***************************************************************************)
NextObjects ==
    \/ NextS3
    \/ \E p \in Procs, t \in S3Tenants, k \in S3Keys :
          \/ download_file(p, k, t)
          \/ get_file_metadata(p, k, t)
          \/ \E dest \in S3Keys : copy_file(p, k, dest, t)
          \/ \E code \in S3ErrorCodes :
                \/ download_file_error(p, k, t, code)
                \/ get_file_metadata_error(p, k, t, code)
                \/ \E dest \in S3Keys : copy_file_error(p, k, dest, t, code)

SpecObjects == InitS3 /\ [][NextObjects]_vars

(***************************************************************************)
(* Claims about the keys and errors the object-store adapter returns.      *)
(***************************************************************************)
\* C15: every key that upload_file, list_files, copy_file or
\* get_file_metadata returns to its caller is the key relative to the
\* tenant, as the caller gave it, without the leading tenant segment.
C15_ReturnedKeysAreTenantRelative ==
    \A p \in Procs :
        LET r == ret[p] IN
        (r.op \in {"upload_file", "list_files", "copy_file", "get_file_metadata"}
         /\ r.outcome = "return")
        => CASE r.op = "upload_file" -> r.value.key = r.key
             [] r.op = "get_file_metadata" -> r.value.key = r.key
             [] r.op = "copy_file" ->
                   r.value.source_key = r.key /\ r.value.dest_key = r.dest_key
             [] r.op = "list_files" ->
                   \A i \in 1..Len(r.value) :
                      \E o \in Mine(r) : o.given = r.value[i]

IsDownload(r) == r.op = "download_file"

\* C16: a download_file of a key under which the tenant has no object raises
\* FileNotFoundError; one whose get_object is answered with any other store
\* error raises an Exception that is not a FileNotFoundError; and it
\* returns, with the stored object's content, only when the object exists.
C16_DownloadTellsAbsenceFromFault ==
    \A p \in Procs :
        LET r == ret[p] IN
        IsDownload(r) =>
            LET exists == \E o \in r.objects : o.Key = full_key(r.tenant_id, r.key)
            IN  /\ (~r.fault /\ ~exists)
                   => (r.outcome = "raise" /\ r.value.type = "FileNotFoundError")
                /\ r.fault
                   => (r.outcome = "raise" /\ r.value.type = "Exception")
                /\ r.outcome = "return"
                   => /\ exists
                      /\ r.value \in r.objects
                      /\ r.value.Key = full_key(r.tenant_id, r.key)
                      /\ r.value.tenant_id = r.tenant_id

\* one download of a missing key raised FileNotFoundError, and another of a
\* stored key failed on a store error with a plain Exception
C16_Witness ==
    \E p, q \in Procs :
        /\ IsDownload(ret[p]) /\ ~ret[p].fault
        /\ ret[p].outcome = "raise" /\ ret[p].value.type = "FileNotFoundError"
        /\ IsDownload(ret[q]) /\ ret[q].fault
        /\ \E o \in ret[q].objects : o.Key = full_key(ret[q].tenant_id, ret[q].key)
        /\ ret[q].outcome = "raise" /\ ret[q].value.type = "Exception"

\* a download of a stored key returned the object
C16_WitnessReturn ==
    \E p \in Procs :
        /\ IsDownload(ret[p]) /\ ret[p].outcome = "return"
        /\ ret[p].value.given = ret[p].key


(***************************************************************************)
(* Claims about colliding campaign events.                                 *)
(***************************************************************************)
\* the rows of the tracking table under the key of an event
SameEvent(table, tenant_id, id) ==
    {r \in table : r.tenant_id = tenant_id /\ r.event_id = id}

s3_data_prefix == "data"
valid_types == {"interactions", "users", "items"}
Formats == {"csv", "json", "parquet"}
Channels == {"email", "sms"}

\* what the validated operations leave alone
notValidated == <<recommendations_table, written, campaign_tracking_table,
                  personalize, now, user_profiles_table>>

\* datetime.utcnow().strftime("%Y%m%d_%H%M%S"): the clock to the second
strftime(t) == ToString(Timestamp(t))

\* f"{settings.s3_data_prefix}/{dataset_type}/{timestamp}.{format}"
filename(dataset_type, format, t) ==
    <<s3_data_prefix, "/", dataset_type, "/", strftime(t), ".", format>>

\* a check that lets every dataset through
dataset_unchecked(dataset_type, format) == "ok"

\* the ValueError upload_dataset raises before it uploads, if any
dataset_error(dataset_type, format) ==
    IF dataset_type \notin valid_types THEN "Invalid dataset type"
    ELSE IF format \notin Formats THEN "Unsupported format"
    ELSE "ok"

\* the ValueError send_personalized_recommendations raises before it sends
channel_error(channel) ==
    IF channel \in Channels THEN "ok" ELSE "Unsupported channel"

ValueError(message) == [type |-> "ValueError", message |-> message]

DatasetResult(c, outcome, value, fault) ==
    [op |-> "upload_dataset", tenant_id |-> c.tenant_id,
     dataset_type |-> c.dataset_type, format |-> c.format,
     outcome |-> outcome, value |-> value, fault |-> fault]

\* upload_dataset up to its upload_file: the input is checked and the
\* content built; invalid input raises ValueError there
upload_dataset(p, dataset_type, tenant_id, format) ==
    LET c == [op |-> "upload_dataset", pc |-> "put_object",
              tenant_id |-> tenant_id, dataset_type |-> dataset_type,
              format |-> format,
              key |-> filename(dataset_type, format, now)]
        error == dataset_error(dataset_type, format)
    IN  /\ call[p].op = "idle" /\ ncalls < MaxCalls
        /\ ncalls' = ncalls + 1
        /\ IF error = "ok"
           THEN /\ call' = [call EXCEPT ![p] = c]
                /\ ret' = [ret EXCEPT ![p] = NoRet]
           ELSE /\ UNCHANGED call
                /\ ret' = [ret EXCEPT ![p] =
                      DatasetResult(c, "raise", ValueError(error), FALSE)]
        /\ UNCHANGED <<notValidated, bucket, pinpoint>>

\* the put_object of upload_file answered: the upload information returned
dataset_put_object(p) ==
    LET c == call[p] IN
    /\ c.op = "upload_dataset" /\ c.pc = "put_object"
    /\ bucket' = PutObject(bucket, Object(c.tenant_id, c.key))
    /\ call' = [call EXCEPT ![p] = Idle]
    /\ ret' = [ret EXCEPT ![p] =
          DatasetResult(c, "return",
                        [key |-> full_key(c.tenant_id, c.key)], FALSE)]
    /\ UNCHANGED <<notValidated, ncalls, pinpoint>>

\* the put_object answered with a ClientError
dataset_put_object_error(p) ==
    LET c == call[p] IN
    /\ c.op = "upload_dataset" /\ c.pc = "put_object"
    /\ call' = [call EXCEPT ![p] = Idle]
    /\ ret' = [ret EXCEPT ![p] =
          DatasetResult(c, "raise",
                        [type |-> "Exception", message |-> "S3 upload failed"],
                        TRUE)]
    /\ UNCHANGED <<notValidated, ncalls, bucket, pinpoint>>

SendResult(c, outcome, value, fault) ==
    [op |-> "send_personalized_recommendations", tenant_id |-> c.tenant_id,
     user_id |-> c.user_id, channel |-> c.channel,
     outcome |-> outcome, value |-> value, fault |-> fault]

\* send_personalized_recommendations up to its send_messages: the content
\* is built for the channel; another channel raises ValueError there
send_personalized_recommendations(p, tenant_id, user_id, n, channel) ==
    LET c == [op |-> "send_personalized_recommendations",
              pc |-> "send_messages",
              tenant_id |-> tenant_id, user_id |-> user_id,
              recommendations_count |-> n, channel |-> channel]
        error == channel_error(channel)
    IN  /\ call[p].op = "idle" /\ ncalls < MaxCalls
        /\ ncalls' = ncalls + 1
        /\ IF error = "ok"
           THEN /\ call' = [call EXCEPT ![p] = c]
                /\ ret' = [ret EXCEPT ![p] = NoRet]
           ELSE /\ UNCHANGED call
                /\ ret' = [ret EXCEPT ![p] =
                      SendResult(c, "raise", ValueError(error), FALSE)]
        /\ UNCHANGED <<notValidated, bucket, pinpoint>>

\* client.send_messages answered: the send information returned
send_messages(p) ==
    LET c == call[p] IN
    /\ c.op = "send_personalized_recommendations" /\ c.pc = "send_messages"
    /\ pinpoint' = pinpoint \cup {[user_id |-> c.user_id, channel |-> c.channel]}
    /\ call' = [call EXCEPT ![p] = Idle]
    /\ ret' = [ret EXCEPT ![p] =
          SendResult(c, "return",
                     [user_id |-> c.user_id, tenant_id |-> c.tenant_id,
                      channel |-> c.channel,
                      recommendations_count |-> c.recommendations_count,
                      status |-> "SENT"], FALSE)]
    /\ UNCHANGED <<notValidated, ncalls, bucket>>

\* client.send_messages answered with a ClientError
send_messages_error(p) ==
    LET c == call[p] IN
    /\ c.op = "send_personalized_recommendations" /\ c.pc = "send_messages"
    /\ call' = [call EXCEPT ![p] = Idle]
    /\ ret' = [ret EXCEPT ![p] =
          SendResult(c, "raise",
                     [type |-> "Exception",
                      message |-> "Personalized message failed"], TRUE)]
    /\ UNCHANGED <<notValidated, ncalls, bucket, pinpoint>>

\* inputs: a valid and an invalid value of each checked argument
DatasetTypeInputs == {"interactions", "orders"}
FormatInputs == {"csv", "parquet", "xml"}
ChannelInputs == {"email", "sms", "push"}
CountInputs == {0, 1}

NextValidation ==
    \E p \in Procs :
        \/ \E t \in S3Tenants, dataset_type \in DatasetTypeInputs,
              format \in FormatInputs :
              upload_dataset(p, dataset_type, t, format)
        \/ dataset_put_object(p)
        \/ dataset_put_object_error(p)
        \/ \E t \in Tenants, u \in Users, n \in CountInputs,
              channel \in ChannelInputs :
              send_personalized_recommendations(p, t, u, n, channel)
        \/ send_messages(p)
        \/ send_messages_error(p)

SpecValidation == InitS3 /\ [][NextValidation]_vars

(***************************************************************************)
(* Claims about input validation.                                          *)
(***************************************************************************)
\* a request that has ended with the ValueError of a rejected input
Rejected(r, op) ==
    /\ r.op = op /\ r.outcome = "raise" /\ r.value.type = "ValueError"

C18_WitnessFormat ==
    \E p \in Procs :
        /\ Rejected(ret[p], "upload_dataset")
        /\ ret[p].dataset_type \in valid_types
        /\ ret[p].format = "xml"


(***************************************************************************)
(* main.py: the routes, their two header dependencies and the handlers'    *)
(* except clauses.  A header is PyNone when the request does not carry it  *)
(* and PyStr of its value when it does.                                    *)
(***************************************************************************)
\* config.api_key
api_key == "k1"

HealthRoutes == {"/", "/health"}
Routes == HealthRoutes \cup
          {"/upload", "/train", "/recommendations", "/campaign", "/status",
           "/metrics"}

\* the prefix of the detail of each handler's 500
FailedPrefix ==
    [r \in Routes \ HealthRoutes |->
        CASE r = "/upload" -> "Upload failed: "
          [] r = "/train" -> "Training failed: "
          [] r = "/recommendations" -> "Recommendations failed: "
          [] r = "/campaign" -> "Campaign failed: "
          [] r = "/status" -> "Status check failed: "
          [] r = "/metrics" -> "Metrics failed: "]

Response(status_code, detail) == [status_code |-> status_code, detail |-> detail]
Passed == Response(0, "")

\* a key check that lets every key through
validate_any_key(x_api_key) == Passed

\* validate_api_key, called with the header's value
validate_api_key(x_api_key) ==
    IF x_api_key = "" \/ x_api_key # api_key
    THEN Response(401, "Invalid API key")
    ELSE Passed

\* validate_tenant_id, called with the header's value
validate_tenant_id(x_tenant_id) ==
    IF x_tenant_id = ""
    THEN Response(400, "Tenant ID is required")
    ELSE Passed

\* a parameter declared Header(...) whose header the request does not
\* carry: a validation error of the request
MissingHeader == Response(422, "Field required")

\* the route's dependencies in the order of its parameters.  A dependency is
\* called with the value of a header that is there, and not called when the
\* header is not there; the HTTPException of a dependency that was called
\* ends the request at once; validation errors of the request are answered
\* when all dependencies are through
Dependencies(x_api_key, x_tenant_id) ==
    LET key == IF x_api_key = PyNone THEN MissingHeader
               ELSE validate_api_key(x_api_key.s)
        tenant == IF x_tenant_id = PyNone THEN MissingHeader
                  ELSE validate_tenant_id(x_tenant_id.s)
    IN  IF key.status_code = 401 THEN key
        ELSE IF tenant.status_code = 400 THEN tenant
        ELSE IF key # Passed THEN key
        ELSE tenant

\* a handler: the adapter calls inside try, any Exception turned into a 500
\* whose detail ends with str(e)
Handle(route, failure) ==
    IF failure = "" THEN Response(200, "")
    ELSE Response(500, FailedPrefix[route] \o failure)

\* the response to a request; failure is the message of the exception an
\* adapter call of the handler raises, "" when none does
Respond(route, x_api_key, x_tenant_id, failure) ==
    IF route \in HealthRoutes THEN Response(200, "")
    ELSE LET dependencies == Dependencies(x_api_key, x_tenant_id)
         IN  IF dependencies # Passed THEN dependencies
             ELSE Handle(route, failure)

ApiKeyInputs == {PyNone, PyStr(""), PyStr("k0"), PyStr(api_key)}
TenantInputs == {PyNone, PyStr(""), PyStr("tA")}
Failures == {"", "timed out"}

\* file.filename of the upload, place by place
Filenames == {<<"a", ".", "c", "s", "v">>, <<"a", ".", "t", "x", "t">>,
              <<"c", "s", "v">>}

\* str.endswith
EndsWith(str, suffix) ==
    /\ Len(suffix) <= Len(str)
    /\ SubSeq(str, Len(str) - Len(suffix) + 1, Len(str)) = suffix

\* str(e) of the exception a handler raises inside its try before it calls
\* the adapter, "" when it raises none: the HTTPException(400) of /upload
Local(route, file) ==
    IF route = "/upload" /\ ~EndsWith(file, <<".", "c", "s", "v">>)
    THEN "400: Only CSV files are supported"
    ELSE ""

\* delegated: the handler's adapter method was called
Answer(c, failure, delegated) ==
    [op |-> "request", route |-> c.route,
     x_api_key |-> c.x_api_key, x_tenant_id |-> c.x_tenant_id,
     filename |-> c.filename, failure |-> failure, delegated |-> delegated,
     response |-> Respond(c.route, c.x_api_key, c.x_tenant_id, failure)]

\* a request up to the handler's adapter call: the dependencies and the
\* handler's own check; a request that fails them is answered here
request(p, route, x_api_key, x_tenant_id, file) ==
    LET c == [op |-> "request", pc |-> "adapter", route |-> route,
              x_api_key |-> x_api_key, x_tenant_id |-> x_tenant_id,
              filename |-> file]
    IN  /\ call[p].op = "idle" /\ ncalls < MaxCalls
        /\ ncalls' = ncalls + 1
        /\ IF route \in HealthRoutes
              \/ Dependencies(x_api_key, x_tenant_id) # Passed
           THEN /\ ret' = [ret EXCEPT ![p] = Answer(c, "", FALSE)]
                /\ UNCHANGED call
           ELSE IF Local(route, file) # ""
           THEN /\ ret' = [ret EXCEPT ![p] =
                      Answer(c, Local(route, file), FALSE)]
                /\ UNCHANGED call
           ELSE /\ call' = [call EXCEPT ![p] = c]
                /\ ret' = [ret EXCEPT ![p] = NoRet]
        /\ UNCHANGED <<notS3, now, bucket>>

\* the adapter method returns, or raises an exception with the message
adapter(p, failure) ==
    LET c == call[p]
    IN  /\ c.op = "request" /\ c.pc = "adapter"
        /\ call' = [call EXCEPT ![p] = Idle]
        /\ ret' = [ret EXCEPT ![p] = Answer(c, failure, TRUE)]
        /\ UNCHANGED <<notS3, now, bucket, ncalls>>

\* the file names a request to the route can carry: only /upload has a file
FilesOf(route) == IF route = "/upload" THEN Filenames ELSE {<<>>}

NextRoutes ==
    \/ \E p \in Procs, route \in Routes, x_api_key \in ApiKeyInputs,
          x_tenant_id \in TenantInputs :
          \E file \in FilesOf(route) :
             request(p, route, x_api_key, x_tenant_id, file)
    \/ \E p \in Procs, failure \in Failures : adapter(p, failure)

SpecRoutes == InitS3 /\ [][NextRoutes]_vars

(***************************************************************************)
(* Claims about response statuses.                                         *)
(***************************************************************************)
\* the detail ends with the message
Echoes(detail, message) ==
    \E prefix \in {FailedPrefix[r] : r \in Routes \ HealthRoutes} :
        detail = prefix \o message

\* C19: on every route other than the health routes a request without the
\* API key header, or with a key that is not the configured one, is
\* answered 401; a request with a valid key and no tenant header is
\* answered 400; and a request with valid key and tenant whose handler has
\* an adapter call fail is answered 500 with a detail echoing the failure.
C19_RouteStatus ==
    \A p \in Procs :
        LET r == ret[p] IN
        (r.op = "request" /\ r.route \notin HealthRoutes)
        => /\ (r.x_api_key = PyNone \/ r.x_api_key.s # api_key)
                 => r.response.status_code = 401
           /\ (r.x_api_key = PyStr(api_key) /\ r.x_tenant_id = PyNone)
                 => r.response.status_code = 400
           /\ (/\ r.x_api_key = PyStr(api_key)
               /\ r.x_tenant_id \notin {PyNone, PyStr("")}
               /\ r.failure # "")
                 => /\ r.response.status_code = 500
                    /\ Echoes(r.response.detail, r.failure)


(***************************************************************************)
(* Claims about the sweep of cleanup_expired_items.                        *)
(***************************************************************************)
\* C21: every step of a cleanup_expired_items(tenant) leaves the campaign
\* tracking table as it is and changes a recommendation row only by
\* deleting a row of that tenant whose ttl is before the sweep's clock
\* reading, so unexpired rows and rows of other tenants stay; and the
\* 'recommendations' count it returns is the number of rows it deleted.
C21_SweepDeletesExactlyExpiredRows ==
    [][\A p \in Procs :
          LET c == call[p] IN
          (IsCleanup(c) /\ call'[p] # c)
          => /\ campaign_tracking_table' = campaign_tracking_table
             /\ \A k \in Keys :
                   recommendations_table'[k] # recommendations_table[k]
                   => /\ k[1] = c.tenant_id
                      /\ recommendations_table[k] # NoItem
                      /\ recommendations_table[k].ttl < c.current_timestamp
                      /\ recommendations_table'[k] = NoItem
             /\ (call'[p] = Idle /\ ~ret'[p].fault)
                   => ret'[p].value.recommendations = c.removed]_vars


(***************************************************************************)
(* Claims about the growth of the tracking table.                          *)
(***************************************************************************)
\* C22: every successful track_campaign_event adds one row to the tracking
\* table and leaves every row stored before as it was, so that the rows of
\* a tenant and campaign, which get_campaign_metrics counts as
\* total_events, are as many as the successful calls.
C22_TrackingIsAppendOnly ==
    [][\A p \in Procs, t \in Tenants, c \in Campaigns, u \in Users,
          event_type \in EventTypes :
          track_campaign_event(p, t, c, u, event_type)
          => /\ campaign_tracking_table \subseteq campaign_tracking_table'
             /\ Cardinality(Query(campaign_tracking_table', t, c))
                   = Cardinality(Query(campaign_tracking_table, t, c)) + 1]_vars


(***************************************************************************)
(* Claims about retries.                                                   *)
(***************************************************************************)
\* the SDK calls of the invocation that were answered with an error
FailedCalls(c) == {e[2] : e \in c.errors}

ProfileFields == {"age", "updated_at"}
ProfileValues == {"x", "y"}

\* the dicts passed as profile_data and as updates
Dicts == UNION {[fields -> ProfileValues] : fields \in SUBSET ProfileFields}

\* what the profile operations leave alone
notProfiles == <<recommendations_table, written, campaign_tracking_table,
                 personalize, bucket, pinpoint>>

\* datetime.utcnow().isoformat()
isoformat(t) == "T" \o ToString(t)

\* the item create_user_profile puts
ProfileItem(profile_data, t) ==
    [attribute \in {"profile_data", "created_at", "updated_at"} |->
        IF attribute = "profile_data" THEN profile_data ELSE isoformat(t)]

\* expression_attribute_values: ':updated_at' set first, then f":{key}" for
\* each key of updates (entries are named here without the colon)
ExpressionAttributeValues(updates, t) ==
    [name \in {"updated_at"} \cup DOMAIN updates |->
        IF name \in DOMAIN updates THEN updates[name] ELSE isoformat(t)]

\* whether the table accepts "SET updated_at = .., profile_data.<key> = .."
\* for the row: a path profile_data.<key> needs the map profile_data
Accepts(row, updates) ==
    DOMAIN updates = {} \/ (row # NoProfile /\ "profile_data" \in DOMAIN row)

\* the row after the update expression is applied; a row that was not there
\* is created with the attributes set
UpdateItem(row, updates, values) ==
    LET old == IF row = NoProfile THEN [attribute \in {} |-> ""] ELSE row
        attributes == DOMAIN old \cup {"updated_at"}
    IN  [attribute \in attributes |->
            IF attribute = "updated_at" THEN values["updated_at"]
            ELSE IF attribute = "profile_data"
            THEN [field \in DOMAIN old.profile_data \cup DOMAIN updates |->
                     IF field \in DOMAIN updates THEN values[field]
                     ELSE old.profile_data[field]]
            ELSE old[attribute]]

ProfileResult(op, tenant_id, user_id, outcome, value, fault) ==
    [op |-> op, tenant_id |-> tenant_id, user_id |-> user_id,
     outcome |-> outcome, value |-> value, fault |-> fault]

\* the put_item answered: True returned
create_user_profile(p, tenant_id, user_id, profile_data) ==
    /\ call[p].op = "idle" /\ ncalls < MaxCalls
    /\ ncalls' = ncalls + 1
    /\ user_profiles_table' =
          [user_profiles_table EXCEPT ![<<tenant_id, user_id>>] =
              ProfileItem(profile_data, now)]
    /\ ret' = [ret EXCEPT ![p] =
          ProfileResult("create_user_profile", tenant_id, user_id,
                        "return", PyBool(TRUE), FALSE)]
    /\ UNCHANGED <<notProfiles, now, call>>

\* the put_item answered with a ClientError: wrapped and raised
create_user_profile_error(p, tenant_id, user_id) ==
    /\ call[p].op = "idle" /\ ncalls < MaxCalls
    /\ ncalls' = ncalls + 1
    /\ ret' = [ret EXCEPT ![p] =
          ProfileResult("create_user_profile", tenant_id, user_id,
                        "raise", PyStr("User profile creation failed"), TRUE)]
    /\ UNCHANGED <<notProfiles, now, call, user_profiles_table>>

\* the update_item answered: True when the table applied the expression,
\* False when it refused it (a ClientError)
update_user_profile(p, tenant_id, user_id, updates) ==
    LET key == <<tenant_id, user_id>>
        row == user_profiles_table[key]
    IN  /\ call[p].op = "idle" /\ ncalls < MaxCalls
        /\ ncalls' = ncalls + 1
        /\ IF Accepts(row, updates)
           THEN /\ user_profiles_table' =
                      [user_profiles_table EXCEPT ![key] =
                          UpdateItem(row, updates,
                                     ExpressionAttributeValues(updates, now))]
                /\ ret' = [ret EXCEPT ![p] =
                      ProfileResult("update_user_profile", tenant_id, user_id,
                                    "return", PyBool(TRUE), FALSE)]
           ELSE /\ UNCHANGED user_profiles_table
                /\ ret' = [ret EXCEPT ![p] =
                      ProfileResult("update_user_profile", tenant_id, user_id,
                                    "return", PyBool(FALSE), FALSE)]
        /\ UNCHANGED <<notProfiles, now, call>>

\* the update_item answered with another ClientError: False returned
update_user_profile_error(p, tenant_id, user_id) ==
    /\ call[p].op = "idle" /\ ncalls < MaxCalls
    /\ ncalls' = ncalls + 1
    /\ ret' = [ret EXCEPT ![p] =
          ProfileResult("update_user_profile", tenant_id, user_id,
                        "return", PyBool(FALSE), TRUE)]
    /\ UNCHANGED <<notProfiles, now, call, user_profiles_table>>

\* the clock moves on between two operations on profiles
ProfileTick ==
    /\ now < MaxTicks
    /\ now' = now + 1
    /\ UNCHANGED <<notProfiles, call, ret, ncalls, user_profiles_table>>

NextProfiles ==
    \/ \E p \in Procs, t \in Tenants, u \in Users :
          \/ \E profile_data \in Dicts : create_user_profile(p, t, u, profile_data)
          \/ \E updates \in Dicts : update_user_profile(p, t, u, updates)
          \/ create_user_profile_error(p, t, u)
          \/ update_user_profile_error(p, t, u)
    \/ ProfileTick

SpecProfiles == InitS3 /\ [][NextProfiles]_vars

(***************************************************************************)
(* Claims about profile updates.                                           *)
(***************************************************************************)
\* C24: a successful update_user_profile of a stored profile leaves the
\* fields of profile_data named in updates with the new values and every
\* other field of profile_data as it was, sets updated_at to the clock
\* reading of the call, keeps created_at, and changes no row of another
\* (tenant, user).
C24_UpdateIsAMerge ==
    [][\A p \in Procs, t \in Tenants, u \in Users, updates \in Dicts :
          LET row == user_profiles_table[<<t, u>>]
              after == user_profiles_table'[<<t, u>>]
          IN  (/\ update_user_profile(p, t, u, updates)
               /\ ret'[p].value = PyBool(TRUE)
               /\ row # NoProfile /\ "profile_data" \in DOMAIN row)
              => /\ DOMAIN after.profile_data
                       = DOMAIN row.profile_data \cup DOMAIN updates
                 /\ \A field \in DOMAIN after.profile_data :
                       after.profile_data[field] =
                          IF field \in DOMAIN updates THEN updates[field]
                          ELSE row.profile_data[field]
                 /\ after.updated_at = isoformat(now)
                 /\ "created_at" \in DOMAIN row
                       => after.created_at = row.created_at
                 /\ \A k \in Keys \ {<<t, u>>} :
                       user_profiles_table'[k] = user_profiles_table[k]]_vars


(***************************************************************************)
(* Claims about explicit invalidation.                                     *)
(***************************************************************************)
IsInvalidate(r) == r.op = "invalidate_recommendations_cache"

\* C25: an answered invalidate_recommendations_cache returns True and leaves
\* no row under its key, whatever the row's ttl, and no other row changed;
\* on a key without a row it changes nothing.  A key without a row gets
\* one again only by the put_item of a cache_recommendations for that key,
\* and a get_cached_recommendations whose read finds no row returns None.
C25_InvalidatedUntilNextWrite ==
    [][/\ \A p \in Procs, t \in Tenants, u \in Users :
             invalidate_recommendations_cache(p, t, u)
             => /\ recommendations_table'[<<t, u>>] = NoItem
                /\ \A k \in Keys \ {<<t, u>>} :
                      recommendations_table'[k] = recommendations_table[k]
                /\ ret'[p].value = PyBool(TRUE)
                /\ recommendations_table[<<t, u>>] = NoItem
                      => recommendations_table' = recommendations_table
       /\ \A k \in Keys :
             (recommendations_table[k] = NoItem /\ recommendations_table'[k] # NoItem)
             => \E p \in Procs :
                   /\ call[p].op = "cache_recommendations" /\ KeyOf(call[p]) = k
                   /\ call'[p] = Idle
       /\ \A p \in Procs :
             (/\ IsGet(call[p]) /\ call[p].pc = "get_item" /\ call'[p] # call[p]
              /\ recommendations_table[KeyOf(call[p])] = NoItem)
             => (call'[p] = Idle /\ ret'[p].value = PyNone)]_vars

\* a row whose ttl had not passed was invalidated, and a later read of the
\* key by another request found no row and returned None
C25_Witness ==
    \E p, q \in Procs :
        /\ IsInvalidate(ret[p]) /\ ~ret[p].fault
        /\ ret[p].item # NoItem /\ ret[p].item.ttl > Timestamp(now)
        /\ IsGet(ret[q]) /\ KeyOf(ret[q]) = KeyOf(ret[p])
        /\ ~ret[q].fault /\ ret[q].item = NoItem /\ ret[q].value = PyNone
        /\ ret[q].seen = NoWrite
        /\ recommendations_table[KeyOf(ret[p])] = NoItem

\* a key without a row was invalidated: True returned
C25_WitnessNoRow ==
    \E p \in Procs :
        /\ IsInvalidate(ret[p]) /\ ret[p].item = NoItem
        /\ ret[p].value = PyBool(TRUE)


(***************************************************************************)
(* Claims about the handlers' checks and their adapter calls.              *)
(***************************************************************************)
Authorized(r) ==
    /\ r.x_api_key = PyStr(api_key)
    /\ r.x_tenant_id \notin {PyNone, PyStr("")}

\* C26: an authorized POST /upload of a file whose name does not end in
\* .csv is answered 400, and the object-store adapter is not called for it.
C26_UploadOfOtherFileIs400 ==
    \A p \in Procs :
        LET r == ret[p] IN
        (/\ r.op = "request" /\ r.route = "/upload" /\ Authorized(r)
         /\ ~EndsWith(r.filename, <<".", "c", "s", "v">>))
        => (r.response.status_code = 400 /\ ~r.delegated)

\* C27: on every route other than / and /health an adapter method is called
\* only for a request whose API key is the configured one and whose tenant
\* header is there and not empty: an adapter call is only ever pending or
\* answered for such a request, and a request that fails either check is
\* answered 401, 400 or 422 without any adapter call.
C27_NoDelegationWithoutBothHeaders ==
    \A p \in Procs :
        /\ call[p].op = "request"
           => (call[p].route \notin HealthRoutes /\ Authorized(call[p]))
        /\ (ret[p].op = "request" /\ ret[p].delegated)
           => (ret[p].route \notin HealthRoutes /\ Authorized(ret[p]))
        /\ (/\ ret[p].op = "request" /\ ret[p].route \notin HealthRoutes
            /\ ~Authorized(ret[p]))
           => /\ ret[p].response.status_code \in {401, 400, 422}
              /\ ~ret[p].delegated

\* one request was refused for its key and another for its tenant header,
\* both without an adapter call, while a third kind was delegated
C27_Witness ==
    \E p, q \in Procs :
        /\ ret[p].op = "request" /\ ret[p].route \notin HealthRoutes
        /\ ret[p].x_api_key = PyStr("k0") /\ ret[p].x_tenant_id = PyStr("tA")
        /\ ret[p].response.status_code = 401 /\ ~ret[p].delegated
        /\ ret[q].op = "request" /\ ret[q].route \notin HealthRoutes
        /\ ret[q].x_api_key = PyStr(api_key) /\ ret[q].x_tenant_id = PyStr("")
        /\ ret[q].response.status_code = 400 /\ ~ret[q].delegated

\* an authorized request was delegated to its adapter method
C27_WitnessDelegated ==
    \E p \in Procs :
        /\ ret[p].op = "request" /\ ret[p].delegated /\ Authorized(ret[p])
        /\ ret[p].response.status_code = 200


(***************************************************************************)
(* PinpointHelper: segments and campaigns.  The messaging service keeps    *)
(* segments and campaigns by the Id it gives them; a Name is an attribute  *)
(* and need not be unique.                                                 *)
(***************************************************************************)
SegmentNames == {"vip"}
CampaignNames == {"sale"}
MaxResources == 2   \* segments, and campaigns, the service is asked to hold

\* what the messaging operations leave alone
notMessaging == <<recommendations_table, written, campaign_tracking_table,
                  personalize, bucket, user_profiles_table, now>>

\* f"{segment_name}-{tenant_id}" and f"{campaign_name}-{tenant_id}"
NameFor(name, tenant_id) == name \o "-" \o tenant_id

Held(kind) == {r \in pinpoint : "kind" \in DOMAIN r /\ r.kind = kind}

\* the Id the service gives the next resource of the kind
NewId(kind) == kind \o ToString(Cardinality(Held(kind)) + 1)

MessagingResult(op, tenant_id, name, outcome, value, fault) ==
    [op |-> op, tenant_id |-> tenant_id, name |-> name,
     outcome |-> outcome, value |-> value, fault |-> fault]

\* a create_segment that returns the segment already held under the name
create_segment_by_name(p, tenant_id, segment_name) ==
    LET same == {r \in Held("segment") : r.Name = NameFor(segment_name, tenant_id)}
        id == IF same = {} THEN NewId("segment") ELSE (CHOOSE r \in same : TRUE).Id
    IN  /\ call[p].op = "idle" /\ ncalls < MaxCalls
        /\ Cardinality(Held("segment")) < MaxResources
        /\ ncalls' = ncalls + 1
        /\ pinpoint' = pinpoint \cup
              {[kind |-> "segment", Id |-> id,
                Name |-> NameFor(segment_name, tenant_id)]}
        /\ ret' = [ret EXCEPT ![p] =
              MessagingResult("create_segment", tenant_id, segment_name, "return",
                  [segment_id |-> id, segment_name |-> segment_name,
                   tenant_id |-> tenant_id, status |-> "CREATED"], FALSE)]
        /\ UNCHANGED <<notMessaging, call>>

\* client.create_segment answered: a segment with a new Id is held and its
\* information returned
create_segment(p, tenant_id, segment_name) ==
    LET id == NewId("segment")
    IN  /\ call[p].op = "idle" /\ ncalls < MaxCalls
        /\ Cardinality(Held("segment")) < MaxResources
        /\ ncalls' = ncalls + 1
        /\ pinpoint' = pinpoint \cup
              {[kind |-> "segment", Id |-> id,
                Name |-> NameFor(segment_name, tenant_id)]}
        /\ ret' = [ret EXCEPT ![p] =
              MessagingResult("create_segment", tenant_id, segment_name, "return",
                  [segment_id |-> id, segment_name |-> segment_name,
                   tenant_id |-> tenant_id, status |-> "CREATED"], FALSE)]
        /\ UNCHANGED <<notMessaging, call>>

\* client.create_segment answered with a ClientError: wrapped and raised
create_segment_error(p, tenant_id, segment_name) ==
    /\ call[p].op = "idle" /\ ncalls < MaxCalls
    /\ ncalls' = ncalls + 1
    /\ ret' = [ret EXCEPT ![p] =
          MessagingResult("create_segment", tenant_id, segment_name, "raise",
                          PyStr("Segment creation failed"), TRUE)]
    /\ UNCHANGED <<notMessaging, call, pinpoint>>

\* send_email_campaign and send_sms_campaign up to their create_campaign
SendCampaign(p, op, tenant_id, name, segment_id) ==
    /\ Begin(p, [op |-> op, pc |-> "create_campaign",
                 tenant_id |-> tenant_id, name |-> name,
                 segment_id |-> segment_id, campaign_id |-> ""])
    /\ UNCHANGED <<notMessaging, pinpoint>>

send_email_campaign(p, tenant_id, name, segment_id) ==
    SendCampaign(p, "send_email_campaign", tenant_id, name, segment_id)

send_sms_campaign(p, tenant_id, name, segment_id) ==
    SendCampaign(p, "send_sms_campaign", tenant_id, name, segment_id)

IsSend(c) == c.op \in {"send_email_campaign", "send_sms_campaign"}

\* client.create_campaign answered: a campaign with a new Id is held
create_campaign_answered(p) ==
    LET c == call[p]
        id == NewId("campaign")
    IN  /\ IsSend(c) /\ c.pc = "create_campaign"
        /\ Cardinality(Held("campaign")) < MaxResources
        /\ pinpoint' = pinpoint \cup
              {[kind |-> "campaign", Id |-> id,
                Name |-> NameFor(c.name, c.tenant_id),
                SegmentId |-> c.segment_id]}
        /\ call' = [call EXCEPT ![p] =
              [c EXCEPT !.pc = "send_messages", !.campaign_id = id]]
        /\ UNCHANGED <<notMessaging, ret, ncalls>>

\* client.send_messages answered: the campaign's message is sent and the
\* campaign information returned
campaign_send_messages(p) ==
    LET c == call[p]
    IN  /\ IsSend(c) /\ c.pc = "send_messages"
        /\ pinpoint' = pinpoint \cup
              {[kind |-> "delivery", Id |-> c.campaign_id,
                SegmentId |-> c.segment_id]}
        /\ Return(p, MessagingResult(c.op, c.tenant_id, c.name, "return",
                 [campaign_id |-> c.campaign_id, campaign_name |-> c.name,
                  tenant_id |-> c.tenant_id, status |-> "SENT",
                  segment_id |-> c.segment_id], FALSE))
        /\ UNCHANGED <<notMessaging, ncalls>>

\* create_campaign or send_messages answered with a ClientError
campaign_error(p) ==
    LET c == call[p]
    IN  /\ IsSend(c)
        /\ Return(p, MessagingResult(c.op, c.tenant_id, c.name, "raise",
                 PyStr("campaign failed"), TRUE))
        /\ UNCHANGED <<notMessaging, ncalls, pinpoint>>

NextMessaging ==
    \/ \E p \in Procs, t \in Tenants :
          \/ \E name \in SegmentNames :
                \/ create_segment(p, t, name)
                \/ create_segment_error(p, t, name)
          \/ \E name \in CampaignNames, r \in Held("segment") :
                \/ send_email_campaign(p, t, name, r.Id)
                \/ send_sms_campaign(p, t, name, r.Id)
    \/ \E p \in Procs :
          \/ create_campaign_answered(p)
          \/ campaign_send_messages(p)
          \/ campaign_error(p)

SpecMessaging == InitS3 /\ [][NextMessaging]_vars

(***************************************************************************)
(* Claims about segment and campaign names.                                *)
(***************************************************************************)
IsCreateSegment(r) == r.op = "create_segment" /\ r.outcome = "return"

\* C28 as stated: two create_segment calls with the same name and tenant
\* that both returned have the same segment, and one segment of that name
\* is held; likewise two campaign sends with the same name and tenant.
C28_SameNameSameResource ==
    \A p, q \in Procs :
        /\ (/\ IsCreateSegment(ret[p]) /\ IsCreateSegment(ret[q])
            /\ ret[p].name = ret[q].name /\ ret[p].tenant_id = ret[q].tenant_id)
           => /\ ret[p].value.segment_id = ret[q].value.segment_id
              /\ Cardinality({r \in Held("segment") :
                    r.Name = NameFor(ret[p].name, ret[p].tenant_id)}) = 1
        /\ (/\ IsSend(ret[p]) /\ IsSend(ret[q])
            /\ ret[p].outcome = "return" /\ ret[q].outcome = "return"
            /\ ret[p].name = ret[q].name /\ ret[p].tenant_id = ret[q].tenant_id)
           => ret[p].value.campaign_id = ret[q].value.campaign_id

\* C28: the name given to the service is '{name}-{tenant_id}', and every
\* answered create_segment and create_campaign adds a resource with an Id
\* no resource had before, also when a resource of that name is already
\* held: it does not fail for the name and does not resolve to the
\* resource held.
C28_EveryCreateIsANewResource ==
    [][\A p \in Procs :
          /\ \A t \in Tenants, name \in SegmentNames :
                create_segment(p, t, name)
                => \E r \in Held("segment")' :
                      /\ r \notin Held("segment")
                      /\ r.Name = NameFor(name, t)
                      /\ r.Id = ret'[p].value.segment_id
                      /\ r.Id \notin {h.Id : h \in Held("segment")}
                      /\ Held("segment")' = Held("segment") \cup {r}
          /\ create_campaign_answered(p)
                => \E r \in Held("campaign")' :
                      /\ r \notin Held("campaign")
                      /\ r.Name = NameFor(call[p].name, call[p].tenant_id)
                      /\ r.Id = call'[p].campaign_id
                      /\ r.Id \notin {h.Id : h \in Held("campaign")}
                      /\ Held("campaign")' = Held("campaign") \cup {r}]_vars

\* two create_segment calls with the same name and tenant have returned
\* two different segments, both held under the same Name
C28_Witness ==
    \E p, q \in Procs :
        /\ IsCreateSegment(ret[p]) /\ IsCreateSegment(ret[q])
        /\ ret[p].name = ret[q].name /\ ret[p].tenant_id = ret[q].tenant_id
        /\ ret[p].value.segment_id # ret[q].value.segment_id
        /\ Cardinality({r \in Held("segment") :
              r.Name = NameFor(ret[p].name, ret[p].tenant_id)}) = 2

\* two sends of the same campaign name and tenant returned two campaigns
C28_WitnessCampaign ==
    \E p, q \in Procs :
        /\ IsSend(ret[p]) /\ IsSend(ret[q])
        /\ ret[p].outcome = "return" /\ ret[q].outcome = "return"
        /\ ret[p].name = ret[q].name /\ ret[p].tenant_id = ret[q].tenant_id
        /\ ret[p].value.campaign_id # ret[q].value.campaign_id


(***************************************************************************)
(* The key-value adapter with the operations of two tenants on the         *)
(* recommendation cache and on the tracking table side by side.            *)
(***************************************************************************)
NextTenants ==
    \/ Tick
    \/ Wait
    \/ \E p \in Procs, t \in Tenants, u \in Users :
          \/ \E r \in RecLists : cache_recommendations(p, t, u, r, 1)
          \/ get_cached_recommendations(p, t, u)
          \/ invalidate_recommendations_cache(p, t, u)
          \/ cleanup_expired_items(p, t)
          \/ \E c \in Campaigns :
                \/ track_campaign_event(p, t, c, u, "sent")
                \/ get_campaign_metrics(p, t, c)
    \/ \E p \in Procs :
          \/ cache_put_item(p)
          \/ get_item(p)
          \/ check_ttl(p)
          \/ expired_delete_item(p)
          \/ cleanup_query(p)
          \/ cleanup_delete_item(p)
          \/ cleanup_count(p)

SpecTenants == InitCache /\ [][NextTenants]_vars

(***************************************************************************)
(* Claims about tenant isolation of the key-value adapter.                 *)
(***************************************************************************)
\* the rows of the two tables that do not belong to the tenant are the same
\* before and after the step
OthersUnchanged(tenant_id) ==
    /\ \A k \in Keys :
          k[1] # tenant_id => recommendations_table'[k] = recommendations_table[k]
    /\ {r \in campaign_tracking_table' : r.tenant_id # tenant_id}
          = {r \in campaign_tracking_table : r.tenant_id # tenant_id}

\* the rows a result was taken from belong to the tenant of the call
OwnData(r) ==
    /\ (IsGet(r) /\ r.item # NoItem)
       => (r.item.tenant_id = r.tenant_id /\ r.item.user_id = r.user_id)
    /\ (IsMetrics(r) /\ ~r.fault)
       => r.value.total_events =
             Cardinality({e \in r.table : /\ e.tenant_id = r.tenant_id
                                          /\ e.campaign_id = r.campaign_id})

C29_WitnessCache ==
    \E p \in Procs :
        /\ IsInvalidate(ret[p]) /\ ~ret[p].fault /\ ret[p].tenant_id = "tA"
        /\ ret[p].item # NoItem
        /\ recommendations_table[<<"tA", "u1">>] = NoItem
        /\ recommendations_table[<<"tB", "u1">>] # NoItem


(***************************************************************************)
(* The object-store adapter called with a tenant id that holds a "/": a    *)
(* tenant id is any non-empty header value.                                *)
(***************************************************************************)
NestedTenants == {<<"t">>, <<"t", "/", "u">>}
NestedKeys == {<<"x">>, <<"u", "/", "x">>}

NextNested ==
    \E p \in Procs, t \in NestedTenants :
        \/ \E k \in NestedKeys :
              \/ upload_file(p, k, t)
              \/ download_file(p, k, t)
              \/ delete_file(p, k, t)
              \/ \E dest \in NestedKeys : copy_file(p, k, dest, t)
        \/ list_files(p, <<>>, t, DefaultMaxKeys)

SpecNested == InitS3 /\ [][NextNested]_vars

(***************************************************************************)
(* Claims about tenant isolation of the object-store adapter.              *)
(***************************************************************************)
\* the objects the tenant has stored
StoredBy(tenant_id) == {o \in bucket : o.tenant_id = tenant_id}

\* what list_files returns when the bucket holds the given objects only
Listing(objects, r) ==
    LET contents == ListObjects(objects, full_key(r.tenant_id, r.prefix),
                                r.max_keys)
    IN  [i \in 1..Len(contents) |->
            ReplaceFirst(contents[i], r.tenant_id \o <<"/">>)]

\* C30: an operation for tenant t leaves every object stored by another
\* tenant as it was, the object a download_file returns was stored by t,
\* and what download_file and list_files return is what they would return
\* with the objects stored by t alone in the bucket, whatever the other
\* tenants have uploaded, copied or deleted.
C30_ObjectTenantIsolation ==
    [][\A p \in Procs :
          ret'[p] # ret[p]
          => LET r == ret'[p]
                 t == r.tenant_id
             IN  /\ {o \in bucket' : o.tenant_id # t}
                       = {o \in bucket : o.tenant_id # t}
                 /\ (IsDownload(r) /\ r.outcome = "return")
                    => r.value.tenant_id = t
                 /\ (IsDownload(r) /\ ~r.fault)
                    => (r.outcome = "return"
                          <=> \E o \in StoredBy(t) : o.given = r.key)
                 /\ (IsList(r) /\ ~r.fault)
                    => r.value = Listing(StoredBy(t), r)]_vars
====
